---- MODULE Spec2Model ----
(***************************************************************************)
(* A model of pipdance: the Waveshare USB-CAN-A frame codec and receive    *)
(* scanner (src/piper/can/waveshare_bus.py), the trajectory compiler       *)
(* (src/piper/choreography/trajectory.py, interpolation.py, groove.py),    *)
(* the trajectory executor (src/piper/choreography/runner.py), the arm     *)
(* link (src/piper/adapters/waveshare.py, standard.py, src/piper/base.py)  *)
(* and the choreography loader (src/piper/choreography/script.py).         *)
(*                                                                         *)
(* Each subsystem has its own variables and its own specification          *)
(* (SpecCodec, SpecRecv, SpecRun, SpecDual, SpecCompile, SpecPure,         *)
(* SpecArm, SpecLoad); a specification leaves the other subsystems'        *)
(* variables at their idle values.  Spec is their union.                   *)
(*                                                                         *)
(* Numbers.  Bytes are 0..255.  A 32-bit unsigned value (an arbitration    *)
(* ID) is held as two 16-bit halves [hi, lo], since the model checker's    *)
(* integers are 32-bit signed.  Times are integers in ticks, TicksPerMs    *)
(* ticks to the millisecond; joint angles are exact rationals <<n, d>>.    *)
(* Floating-point rounding is not modelled.                                *)
(***************************************************************************)
EXTENDS Integers, Sequences, FiniteSets, TLC

VARIABLES
    \* ---- frame codec (one call of _encode_frame / _decode_frame)
    cPc,            \* "off" | "msg" | "raw" | "encoded" | "decoded" | "decoded_raw" | "raised"
    cMsg,           \* the message given to _encode_frame (or NoMsg)
    cBytes,         \* the byte string given to _decode_frame
    cOut,           \* what _decode_frame returned
    \* ---- transport receive path (WaveshareBus._recv_internal)
    rPc,            \* "off" | "idle" | "scan" | "read": position in _recv_internal
    rSent,          \* the frames the adapter sends, in order
    rWire,          \* their encoded bytes not yet returned by a serial read
    recv_buffer,    \* self._recv_buffer
    rDelivered,     \* the messages returned by the calls so far, in order
    rTimeout,       \* the current call's timeout: NoTimeout (None) or poll units of 0.1 s
    rLeft,          \* poll units left until the current call's deadline
    rReads,         \* how many serial reads have returned bytes so far
    rNoise,         \* bytes on the wire ahead of the frames, sent by no one
    \* ---- single-arm executor (run_trajectory)
    rt_pc,          \* "off" | "call" | "loop" | "dispatch" | "wait" | "done" | "raised"
    rt_waypoints,   \* trajectory.waypoints
    rt_dry_run,     \* dry_run
    rt_k,           \* position of the for loop: index of wp in waypoints
    rt_now,         \* time.perf_counter() - start_time, in ticks
    rt_wait_time,   \* wait_time
    rt_log,         \* the calls made on the arm and the sleeps, in order
    \* ---- dual-arm executor (run_dual_trajectory)
    rd_pc,          \* "off" | "call" | "round" | "dispatch" | "wait" | "done" | "raised"
    rd_trajectories,\* label -> trajectory.waypoints
    rd_dry_run,     \* dry_run
    rd_parallel,    \* parallel
    rd_current,     \* label -> index of current_waypoints[label] (Len + 1: None)
    rd_now,         \* time.perf_counter() - start_time, in ticks
    rd_next_time,   \* next_time
    rd_wait_time,   \* wait_time
    rd_pending,     \* pending_commands: <<label, index>> pairs
    rd_rounds,      \* the dispatch rounds formed so far, in order
    rd_log,         \* the calls made on the arms and the sleeps, in order
    \* ---- trajectory compiler (compile_trajectory, compile_dual_trajectory)
    cp_pc,          \* "off" | "call" | "arm" | "grid" | "final" | "done" | "raised"
    cp_dual,        \* TRUE: compile_dual_trajectory; FALSE: compile_trajectory
    cp_choreographies, \* label -> choreography (one label for compile_trajectory)
    cp_interval_ms, \* interval_ms
    cp_interpolation, \* interpolation
    cp_easing,      \* easing
    cp_label,       \* position of the for loop over choreographies.items()
    cp_current_time,\* current_time, in ticks
    cp_waypoints,   \* waypoints (the list being built)
    cp_result,      \* label -> the Trajectory returned for it
    cp_refs,        \* label -> for each waypoint, which list object its joints_deg is
    cp_given,       \* the choreographies as the caller passed them
    cp_first,       \* what the first of two compilations returned
    cp_run,         \* 1: the first compilation; 2: the same call made again
    cp_mutated,     \* the caller has written into a returned waypoint
    \* ---- arm link (WavesharePiperArm; StandardPiperArm.connect)
    wa_pc,          \* "off" | "new" | "feedback" | "enable" | "ready" | "raised"
                    \* | "overflow"
    wa_op,          \* the public call in progress: "none" | "connect" | "state"
    wa_connected,   \* self._connected
    wa_bus,         \* self._bus is not None
    wa_msg_delay,   \* self.msg_delay, in units of 0.1 ms
    wa_stream_burst_s, \* self.stream_burst_s, in units of 0.1 ms
    wa_joints,      \* self._joints, as the millidegrees they are the radians of
    wa_gripper,     \* self._gripper
    wa_rx,          \* the frames the arm has sent that recv has not returned yet
    wa_msg,         \* msg: what the last recv of _read_feedback returned
    wa_received,    \* received (the set built by _read_feedback)
    wa_left,        \* recv timeouts left until _read_feedback's deadline
    wa_round,       \* rounds of the enable loop done
    wa_sent,        \* the frames given to self._bus.send, in order
    wa_call,        \* the last command-sending call: its name and arguments
    st_pc,          \* "off" | "new" | "enabling" | "connected" | "raised"
    st_connected,   \* self._connected of the StandardPiperArm
    st_left,        \* retry intervals left until ENABLE_TIMEOUT_S has passed
    st_log,         \* the calls made on the piper_sdk interface and their answers
    bus_pc,         \* the WaveshareBus: "off" | "new" | "open" | "raised"
    bus_bitrate,    \* bitrate, as given to WaveshareBus(...)
    ser_log,        \* the calls made on self._ser (write with its bytes, flush), in order
    \* ---- choreography loader (load_choreography)
    ld_pc,          \* "off" | "call" | "done" | "raised"
    ld_poses,       \* the poses file: name -> joints in degrees
    ld_schedule,    \* the schedule file's checkpoints: <<time in ms, pose name>>
    ld_result,      \* the Choreography returned
    ld_warnings,    \* the warnings returned
    \* ---- startup sequence (prepend_startup_sequence)
    su_pc,          \* "off" | "call" | "done"
    su_trajectory,  \* trajectory
    su_starting_joints, \* starting_joints
    su_given,       \* the trajectory as the caller passed it
    su_result,      \* the Trajectory returned
    \* ---- timed streaming (_send_joint_command with duration > 0)
    tm_pc,          \* the caller: "off" | "call" | "loop" | "join" | "returned"
    tm_reader,      \* reader_thread: "none" | "head" | "recv" | "exited"
    tm_stop,        \* stop_flag.is_set()
    tm_passes,      \* how many passes of the send loop fit in duration
    tm_left,        \* passes of the send loop still to make
    tm_pos_mdeg,    \* pos_mdeg
    tm_sent,        \* the messages given to self._bus.send, in order
    tm_rx,          \* frames the arm sends, yet to be received
    tm_joints,      \* self._joints, in degrees
    tm_gripper,     \* self._gripper
    tm_log,         \* the events of the call, in order
    tm_late_polls,  \* recv calls of the reader that returned after stop_flag.set()
    \* ---- one parallel round of run_dual_trajectory (lines 181-194, 222-224)
    pl_pc,          \* the caller: "off" | "submit" | "join" | "returned" | "raised"
    pl_pending,     \* the labels of pending_commands, in order
    pl_outcome,     \* label -> what the arm's calls do: "ok" | "move_raises" | "gripper_raises"
    pl_task,        \* label -> "none" | "running" | "moved" | "done" | "failed"
    pl_left,        \* label -> command sets the task's move_joints has yet to send
    pl_joined,      \* how many future.result() calls have returned
    pl_log,         \* what the tasks sent, in order; late: after the caller saw the error
    \* ---- connection lifecycle (PiperArmBase, WavesharePiperArm)
    lc_pc,          \* "off" | "idle"
    lc_connected,   \* self._connected
    lc_bus,         \* self._bus: "none" | "open"
    lc_depth,       \* how many 'with' blocks on the arm are open
    lc_log          \* the calls made, in order

codecVars == <<cPc, cMsg, cBytes, cOut>>
recvVars == <<rPc, rSent, rWire, recv_buffer, rDelivered, rTimeout, rLeft, rReads, rNoise>>
runVars == <<rt_pc, rt_waypoints, rt_dry_run, rt_k, rt_now, rt_wait_time, rt_log>>
dualVars == <<rd_pc, rd_trajectories, rd_dry_run, rd_parallel, rd_current, rd_now,
              rd_next_time, rd_wait_time, rd_pending, rd_rounds, rd_log>>
callerVars == <<cp_given, cp_first, cp_run, cp_mutated>>
compileVars == <<cp_pc, cp_dual, cp_choreographies, cp_interval_ms, cp_interpolation,
                 cp_easing, cp_label, cp_current_time, cp_waypoints, cp_result, cp_refs,
                 callerVars>>
busVars == <<bus_pc, bus_bitrate, ser_log>>
waVars == <<wa_pc, wa_op, wa_connected, wa_bus, wa_msg_delay, wa_stream_burst_s,
            wa_joints, wa_gripper, wa_rx, wa_msg, wa_received, wa_left, wa_round,
            wa_sent, wa_call>>
stVars == <<st_pc, st_connected, st_left, st_log>>
armVars == <<busVars, wa_pc, wa_op, wa_connected, wa_bus, wa_msg_delay, wa_stream_burst_s,
             wa_joints, wa_gripper, wa_rx, wa_msg, wa_received, wa_left, wa_round,
             wa_sent, wa_call, st_pc, st_connected, st_left, st_log>>
loadVars == <<ld_pc, ld_poses, ld_schedule, ld_result, ld_warnings>>
startVars == <<su_pc, su_trajectory, su_starting_joints, su_given, su_result>>
timedVars == <<tm_pc, tm_reader, tm_stop, tm_passes, tm_left, tm_pos_mdeg, tm_sent,
               tm_rx, tm_joints, tm_gripper, tm_log, tm_late_polls>>
poolVars == <<pl_pc, pl_pending, pl_outcome, pl_task, pl_left, pl_joined, pl_log>>
lifeVars == <<lc_pc, lc_connected, lc_bus, lc_depth, lc_log>>
vars == <<codecVars, recvVars, runVars, dualVars, compileVars, armVars, loadVars,
          startVars, timedVars, poolVars, lifeVars>>

\* What an action of one subsystem leaves alone.
exceptCodec == <<recvVars, runVars, dualVars, compileVars, armVars, loadVars,
    startVars, timedVars, poolVars, lifeVars>>
exceptRecv == <<codecVars, runVars, dualVars, compileVars, armVars, loadVars,
    startVars, timedVars, poolVars, lifeVars>>
exceptRun == <<codecVars, recvVars, dualVars, compileVars, armVars, loadVars,
    startVars, timedVars, poolVars, lifeVars>>
exceptDual == <<codecVars, recvVars, runVars, compileVars, armVars, loadVars,
    startVars, timedVars, poolVars, lifeVars>>
exceptCompile == <<codecVars, recvVars, runVars, dualVars, armVars, loadVars,
    startVars, timedVars, poolVars, lifeVars>>
exceptArm == <<codecVars, recvVars, runVars, dualVars, compileVars, loadVars,
    startVars, timedVars, poolVars, lifeVars>>
exceptLoad == <<codecVars, recvVars, runVars, dualVars, compileVars, armVars,
    startVars, timedVars, poolVars, lifeVars>>
exceptStart == <<codecVars, recvVars, runVars, dualVars, compileVars, armVars, loadVars,
    timedVars, poolVars, lifeVars>>
exceptTimed == <<codecVars, recvVars, runVars, dualVars, compileVars, armVars, loadVars,
    startVars, poolVars, lifeVars>>
exceptPool == <<codecVars, recvVars, runVars, dualVars, compileVars, armVars, loadVars,
    startVars, timedVars, lifeVars>>
exceptLife == <<codecVars, recvVars, runVars, dualVars, compileVars, armVars, loadVars,
    startVars, timedVars, poolVars>>

----------------------------------------------------------------------------
(* Generic helpers *)

Min(a, b) == IF a <= b THEN a ELSE b
Max(a, b) == IF a >= b THEN a ELSE b
Abs(a) == IF a < 0 THEN -a ELSE a

RECURSIVE BitAnd(_, _)
BitAnd(a, b) ==
    IF a = 0 \/ b = 0 THEN 0
    ELSE (a % 2) * (b % 2) + 2 * BitAnd(a \div 2, b \div 2)

RECURSIVE BitOr(_, _)
BitOr(a, b) ==
    IF a = 0 THEN b
    ELSE IF b = 0 THEN a
    ELSE Max(a % 2, b % 2) + 2 * BitOr(a \div 2, b \div 2)

\* Python slicing s[from:to] with 0-based, end-exclusive, clamped indices.
Slice(s, from, to) ==
    LET lo == Min(Max(from, 0), Len(s))
        hi == Min(Max(to, 0), Len(s))
    IN  IF hi <= lo THEN << >> ELSE SubSeq(s, lo + 1, hi)

\* bytes.find(b, start): the 0-based index of the first b at or after start, or -1.
Find(s, b, start) ==
    LET hits == {i \in (start + 1)..Len(s) : s[i] = b}
    IN  IF hits = {} THEN -1
        ELSE (CHOOSE i \in hits : \A j \in hits : i <= j) - 1

\* Exact rationals <<n, d>> in lowest terms with d > 0: the values of the
\* floats of the trajectory compiler, without rounding.
RECURSIVE Gcd(_, _)
Gcd(a, b) == IF b = 0 THEN a ELSE Gcd(b, a % b)

Frac(n, d) ==
    LET g == Gcd(Abs(n), d)
    IN  <<n \div g, d \div g>>

Rat(n) == <<n, 1>>

RatAdd(x, y) ==
    LET l == (x[2] \div Gcd(x[2], y[2])) * y[2]
    IN  Frac(x[1] * (l \div x[2]) + y[1] * (l \div y[2]), l)

RatNeg(x) == <<-x[1], x[2]>>

RatSub(x, y) == RatAdd(x, RatNeg(y))

RatMul(x, y) ==
    LET g1 == Gcd(Abs(x[1]), y[2])
        g2 == Gcd(Abs(y[1]), x[2])
    IN  <<(x[1] \div g1) * (y[1] \div g2), (x[2] \div g2) * (y[2] \div g1)>>

RatLess(x, y) == x[1] * y[2] < y[1] * x[2]

RatAbs(x) == <<Abs(x[1]), x[2]>>

----------------------------------------------------------------------------
(* Frame codec: src/piper/can/waveshare_bus.py *)

FRAME_START == 170
FRAME_END == 85
TYPE_STANDARD == 192
TYPE_EXTENDED == 224
TYPE_REMOTE == 16

\* The largest data length of a CAN frame.
MaxDataLen == 8

NoMsg == [none |-> TRUE]
StructError == [raised |-> "struct.error"]

U32(hi, lo) == [hi |-> hi, lo |-> lo]
Id(n) == U32(n \div 65536, n % 65536)

\* can.Message(...) as _decode_frame and the callers of send() build it: a remote
\* frame carries no data.
Message(arb_id, data, is_extended, is_remote) ==
    [arbitration_id |-> arb_id,
     data |-> IF is_remote THEN << >> ELSE data,
     is_extended_id |-> is_extended,
     is_remote_frame |-> is_remote]

\* A mutant of PackH: the two ID bytes in big-endian order.
PackH_BigEndian(v) ==
    IF v.hi # 0 THEN StructError
    ELSE <<v.lo \div 256, v.lo % 256>>

\* struct.pack('<H', v): two bytes, little-endian; struct.error when v > 0xFFFF.
PackH(v) ==
    IF v.hi # 0 THEN StructError
    ELSE <<v.lo % 256, v.lo \div 256>>

\* struct.pack('<I', v): four bytes, little-endian.
PackI(v) == <<v.lo % 256, v.lo \div 256, v.hi % 256, v.hi \div 256>>

\* struct.unpack('<H', b)[0]: struct.error unless b has exactly two bytes.
UnpackH(b) ==
    IF Len(b) # 2 THEN StructError
    ELSE U32(0, b[1] + 256 * b[2])

\* struct.unpack('<I', b)[0]: struct.error unless b has exactly four bytes.
UnpackI(b) ==
    IF Len(b) # 4 THEN StructError
    ELSE U32(b[3] + 256 * b[4], b[1] + 256 * b[2])

\* WaveshareBus._encode_frame
EncodeFrame(msg) ==
    LET base == IF ~msg.is_extended_id THEN TYPE_STANDARD ELSE TYPE_EXTENDED
        withRemote == IF msg.is_remote_frame THEN BitOr(base, TYPE_REMOTE) ELSE base
        type_byte == BitOr(withRemote, BitAnd(Len(msg.data), 15))
        idBytes == IF msg.is_extended_id THEN PackI(msg.arbitration_id)
                   ELSE PackH(msg.arbitration_id)
    IN  IF idBytes = StructError THEN StructError
        ELSE <<FRAME_START, type_byte>> \o idBytes \o msg.data \o <<FRAME_END>>

\* The length below which _decode_frame gives up at once (line 153).
DecodeMinLen == 4

\* The length below which _decode_frame gives up on an extended frame (line 166).
DecodeMinLenExtended == 7

\* WaveshareBus._decode_frame: a Message, NoMsg (None), or StructError (raised).
DecodeFrame(data) ==
    IF Len(data) < DecodeMinLen THEN NoMsg
    ELSE IF data[1] # FRAME_START \/ data[Len(data)] # FRAME_END THEN NoMsg
    ELSE
        LET type_byte == data[2]
            is_extended == BitAnd(type_byte, 32) # 0
            is_remote == BitAnd(type_byte, 16) # 0
            dlc == BitAnd(type_byte, 15)
        IN  IF is_extended /\ Len(data) < DecodeMinLenExtended THEN NoMsg
            ELSE
                LET arb_id == IF is_extended THEN UnpackI(Slice(data, 2, 6))
                              ELSE UnpackH(Slice(data, 2, 4))
                    data_start == IF is_extended THEN 6 ELSE 4
                    data_bytes == Slice(Slice(data, data_start, Len(data) - 1), 0, dlc)
                IN  IF arb_id = StructError THEN StructError
                    ELSE Message(arb_id, data_bytes, is_extended, is_remote)

----------------------------------------------------------------------------
(* The inputs of the codec specification *)

\* Byte values used for IDs and payloads: zero, both markers, all ones, and others.
DataAlphabet == <<0, 85, 170, 255, 1, 18>>

\* A payload of length n, its bytes taken from DataAlphabet starting at seed.
DataOf(n, seed) ==
    [i \in 1..n |-> DataAlphabet[((i + seed) % Len(DataAlphabet)) + 1]]

\* Arbitration IDs: 16-bit ones, and one that does not fit two bytes.
StandardIds == {Id(0), Id(341), Id(677), Id(21930), Id(43605), Id(65535)}
ExtendedIds == StandardIds \cup
               {Id(65536), U32(8191, 65535), U32(21930, 43605), U32(65535, 65535)}

CodecMessages ==
    {Message(i, DataOf(n, s), FALSE, r) :
        i \in StandardIds \cup {Id(65536)}, n \in 0..MaxDataLen,
        s \in 0..(Len(DataAlphabet) - 1), r \in BOOLEAN}
    \cup
    {Message(i, DataOf(n, s), TRUE, r) :
        i \in ExtendedIds, n \in 0..MaxDataLen,
        s \in 0..(Len(DataAlphabet) - 1), r \in BOOLEAN}

\* Raw byte strings handed to _decode_frame: every string over RawAlphabet of
\* length at most MaxRawLen.
MaxRawLen == 7
RawAlphabet == {170, 85, 194, 225, 1}

RECURSIVE RawStrings(_)
RawStrings(n) ==
    IF n = 0 THEN {<< >>}
    ELSE LET shorter == RawStrings(n - 1)
         IN  shorter \cup {Append(s, b) : s \in {t \in shorter : Len(t) = n - 1},
                                           b \in RawAlphabet}

\* What the scanner hands to _decode_frame when the stream holds a start
\* marker, a control byte, two or four ID bytes, n bytes that are not the end
\* marker, and the end marker: every control byte with the 0xC0 bits set,
\* every n up to MaxPayloadLen.
MaxPayloadLen == 16
ControlBytes == 192..255

MarkedFrames ==
    {<<FRAME_START, t>> \o (IF BitAnd(t, 32) # 0 THEN <<1, 2, 3, 4>> ELSE <<165, 2>>)
        \o [i \in 1..n |-> i] \o <<FRAME_END>> :
        t \in ControlBytes, n \in 0..MaxPayloadLen}

InitCodec ==
    /\ cOut = NoMsg
    /\ \/ /\ cPc = "msg"
          /\ cMsg \in CodecMessages
          /\ cBytes = << >>
       \/ /\ cPc = "raw"
          /\ cMsg = NoMsg
          /\ cBytes \in RawStrings(MaxRawLen)
       \/ /\ cPc = "raw"
          /\ cMsg = NoMsg
          /\ cBytes \in MarkedFrames

IdleCodec ==
    /\ cPc = "off"
    /\ cMsg = NoMsg
    /\ cBytes = << >>
    /\ cOut = NoMsg

\* A caller encodes a message (send, line 187).
Encode ==
    /\ cPc = "msg"
    /\ cBytes' = EncodeFrame(cMsg)
    /\ cPc' = IF EncodeFrame(cMsg) = StructError THEN "raised" ELSE "encoded"
    /\ UNCHANGED <<cMsg, cOut>>
    /\ UNCHANGED exceptCodec

\* A caller decodes a byte string (_recv_internal, line 216).
Decode ==
    /\ cPc \in {"encoded", "raw"}
    /\ cOut' = DecodeFrame(cBytes)
    /\ cPc' = IF cPc = "raw" THEN "decoded_raw" ELSE "decoded"
    /\ UNCHANGED <<cMsg, cBytes>>
    /\ UNCHANGED exceptCodec

NextCodec == Encode \/ Decode

----------------------------------------------------------------------------
(* Transport receive path: WaveshareBus._recv_internal *)

\* timeout=None.
NoTimeout == -1

\* The most bytes one serial read returns (self._ser.read(256)).
ReadSize == 256

IsPrefix(a, b) == Len(a) <= Len(b) /\ SubSeq(b, 1, Len(a)) = a

RECURSIVE Concat(_)
Concat(seqs) == IF seqs = << >> THEN << >> ELSE Head(seqs) \o Concat(Tail(seqs))

\* The frames an adapter may send: plain ones, one with the start marker in its
\* payload, and ones with the end marker in the ID or in the payload.
RxMessages ==
    {Message(Id(677), <<1, 2>>, FALSE, FALSE),
     Message(Id(680), <<170, 0, 170>>, FALSE, FALSE),
     Message(U32(1, 678), <<7>>, TRUE, FALSE),
     Message(Id(679), << >>, FALSE, TRUE),
     Message(Id(341), <<3>>, FALSE, FALSE),
     Message(Id(678), <<4, 85, 5>>, FALSE, FALSE)}

\* The most frames on the wire in one run, and the longest timeout in poll units.
MaxFrames == 2
MaxTimeout == 2

RECURSIVE SeqsUpTo(_, _)
SeqsUpTo(S, n) ==
    IF n = 0 THEN {<< >>}
    ELSE LET shorter == SeqsUpTo(S, n - 1)
         IN  shorter \cup {Append(q, x) : q \in {t \in shorter : Len(t) = n - 1}, x \in S}

InitRecv ==
    /\ rPc = "idle"
    /\ rSent \in SeqsUpTo(RxMessages, MaxFrames)
    /\ rWire = Concat([i \in 1..Len(rSent) |-> EncodeFrame(rSent[i])])
    /\ recv_buffer = << >>
    /\ rDelivered = << >>
    /\ rTimeout = NoTimeout
    /\ rLeft = 0
    /\ rReads = 0
    /\ rNoise = << >>

\* Bytes that may reach the serial port ahead of the frames: none, bytes
\* without a start marker, segments from a start marker to an end marker that
\* do not decode (too short for a frame, or for an extended one), and such
\* a segment with other bytes before or after it.
Noise ==
    {<< >>, <<7>>, <<7, 85>>, <<170, 85>>, <<170, 1, 85>>, <<170, 224, 1, 2, 85>>,
     <<7, 170, 1, 85>>, <<170, 1, 85, 7>>}

\* A line that carries noise ahead of the frames.
InitNoisy ==
    /\ rPc = "idle"
    /\ rSent \in SeqsUpTo(RxMessages, MaxFrames)
    /\ rNoise \in Noise
    /\ rWire = rNoise \o Concat([i \in 1..Len(rSent) |-> EncodeFrame(rSent[i])])
    /\ recv_buffer = << >>
    /\ rDelivered = << >>
    /\ rTimeout = NoTimeout
    /\ rLeft = 0
    /\ rReads = 0

IdleRecv ==
    /\ rPc = "off"
    /\ rSent = << >>
    /\ rWire = << >>
    /\ recv_buffer = << >>
    /\ rDelivered = << >>
    /\ rTimeout = NoTimeout
    /\ rLeft = 0
    /\ rReads = 0
    /\ rNoise = << >>

\* _recv_internal is called (line 198): the deadline is set.
RecvBegin ==
    /\ rPc = "idle"
    /\ \E t \in {NoTimeout} \cup 0..MaxTimeout :
          /\ rTimeout' = t
          /\ rLeft' = IF t = NoTimeout THEN 0 ELSE t
    /\ rPc' = "scan"
    /\ UNCHANGED <<rSent, rWire, recv_buffer, rDelivered, rReads, rNoise>>
    /\ UNCHANGED exceptRecv

\* A mutant of ScanBuffer: the whole buffer is dropped with the frame.
ScanBuffer_ClearsBuffer(buf) ==
    LET start_idx == Find(buf, FRAME_START, 0)
        buf1 == IF start_idx > 0 THEN Slice(buf, start_idx, Len(buf)) ELSE buf
        end_idx == Find(buf1, FRAME_END, 1)
    IN  IF start_idx >= 0 /\ end_idx >= 0
        THEN [found |-> TRUE, frame_data |-> Slice(buf1, 0, end_idx + 1), buffer |-> << >>]
        ELSE [found |-> FALSE, frame_data |-> << >>,
              buffer |-> IF start_idx >= 0 THEN buf1 ELSE buf]

\* Lines 203-214: find the start marker, drop what precedes it, find the end
\* marker after it and cut the frame out of the buffer.
ScanBuffer(buf) ==
    LET start_idx == Find(buf, FRAME_START, 0)
    IN  IF start_idx >= 0
        THEN LET buf1 == IF start_idx > 0 THEN Slice(buf, start_idx, Len(buf)) ELSE buf
                 end_idx == Find(buf1, FRAME_END, 1)
             IN  IF end_idx >= 0
                 THEN [found |-> TRUE,
                       frame_data |-> Slice(buf1, 0, end_idx + 1),
                       buffer |-> Slice(buf1, end_idx + 1, Len(buf1))]
                 ELSE [found |-> FALSE, frame_data |-> << >>, buffer |-> buf1]
        ELSE [found |-> FALSE, frame_data |-> << >>, buffer |-> buf]

\* A mutant of RecvScan: a segment that does not decode stays in the buffer.
RecvScan_KeepsSegment ==
    /\ rPc = "scan"
    /\ LET sc == ScanBuffer(recv_buffer)
           msg == DecodeFrame(sc.frame_data)
       IN  /\ recv_buffer' = IF sc.found /\ msg = NoMsg
                             THEN sc.frame_data \o sc.buffer
                             ELSE sc.buffer
           /\ IF sc.found /\ msg # NoMsg
              THEN /\ rDelivered' = Append(rDelivered, msg)
                   /\ rPc' = "idle"
              ELSE /\ rDelivered' = rDelivered
                   /\ rPc' = "read"
    /\ UNCHANGED <<rSent, rWire, rTimeout, rLeft, rReads, rNoise>>
    /\ UNCHANGED exceptRecv

\* Lines 203-218: one scan of the buffer; a decoded frame ends the call.
RecvScan ==
    /\ rPc = "scan"
    /\ LET sc == ScanBuffer(recv_buffer)
           msg == DecodeFrame(sc.frame_data)
       IN  /\ recv_buffer' = sc.buffer
           /\ IF sc.found /\ msg # NoMsg
              THEN /\ rDelivered' = Append(rDelivered, msg)
                   /\ rPc' = "idle"
              ELSE /\ rDelivered' = rDelivered
                   /\ rPc' = "read"
    /\ UNCHANGED <<rSent, rWire, rTimeout, rLeft, rReads, rNoise>>
    /\ UNCHANGED exceptRecv

\* Lines 221-233: give up at the deadline, or read for at most one poll unit.
RecvRead ==
    /\ rPc = "read"
    /\ IF rTimeout # NoTimeout /\ rLeft = 0
       THEN /\ rPc' = "idle"
            /\ UNCHANGED <<rWire, recv_buffer, rLeft, rReads>>
       ELSE \E n \in 0..Min(Len(rWire), ReadSize) :
               LET chunk == SubSeq(rWire, 1, n)
                   left == IF rTimeout = NoTimeout THEN rLeft ELSE rLeft - 1
               IN  /\ rWire' = SubSeq(rWire, n + 1, Len(rWire))
                   /\ rLeft' = left
                   /\ recv_buffer' = recv_buffer \o chunk
                   /\ rReads' = IF chunk = << >> THEN rReads ELSE rReads + 1
                   /\ rPc' = IF chunk = << >> /\ rTimeout # NoTimeout /\ left = 0
                             THEN "idle" ELSE "scan"
    /\ UNCHANGED <<rSent, rDelivered, rTimeout, rNoise>>
    /\ UNCHANGED exceptRecv

NextRecv == RecvBegin \/ RecvScan \/ RecvRead

----------------------------------------------------------------------------
(* Trajectory executor: src/piper/choreography/runner.py *)

\* Times are whole ticks; 0.001 s is TicksPerMs ticks.
TicksPerMs == 2
Ms(n) == n * TicksPerMs

\* The tolerance that groups waypoints into one round (runner.py line 177).
OneMs == Ms(1)

\* How long a dispatch may take and how late a sleep may return, in ticks.
MaxLatency == 1
MaxOvershoot == 1

\* Waypoint (trajectory.py lines 18-22): time_s and joints_deg, nothing else.
Waypoint(time_s, joints_deg) == [time_s |-> time_s, joints_deg |-> joints_deg]

\* Attribute lookup on an object: wp.gripper raises AttributeError when the
\* object has no such attribute.
HasAttr(obj, name) == name \in DOMAIN obj

\* math.radians(d), kept symbolic.
Radians(d) == [radians_of_deg |-> d]
JointsRad(wp) == [i \in 1..Len(wp.joints_deg) |-> Radians(wp.joints_deg[i])]

\* One entry of a log: the call op(arg) made for waypoint k of arm, at clock at.
Call(op, arm, k, arg, at) == [op |-> op, arm |-> arm, k |-> k, arg |-> arg, at |-> at]

CommandOps == {"move_joints", "_send_gripper_command"}

\* The inputs: trajectories as the compiler builds them, with non-decreasing
\* times; the waypoint at an odd position holds PoseA, at an even one PoseB.
MaxWaypoints == 3
WaypointTimes == {0, Ms(1000), Ms(1000) + 1, Ms(1001), Ms(1500)}
PoseA == <<Rat(0), Rat(0), Rat(0), Rat(0), Rat(0), Rat(0)>>
PoseB == <<Rat(0), Rat(90), Rat(0), Rat(0), Rat(0), Rat(0)>>

NonDecreasing(ts) == \A i \in 1..(Len(ts) - 1) : ts[i] <= ts[i + 1]

TrajectoryOf(ts) ==
    [k \in 1..Len(ts) |-> Waypoint(ts[k], IF k % 2 = 1 THEN PoseA ELSE PoseB)]

Trajectories(n) ==
    {TrajectoryOf(ts) : ts \in {q \in SeqsUpTo(WaypointTimes, n) : NonDecreasing(q)}}

InitRun ==
    /\ rt_pc = "call"
    /\ rt_waypoints \in Trajectories(MaxWaypoints)
    /\ rt_dry_run \in BOOLEAN
    /\ rt_k = 1
    /\ rt_now = 0
    /\ rt_wait_time = 0
    /\ rt_log = << >>

IdleRun ==
    /\ rt_pc = "off"
    /\ rt_waypoints = << >>
    /\ rt_dry_run = FALSE
    /\ rt_k = 1
    /\ rt_now = 0
    /\ rt_wait_time = 0
    /\ rt_log = << >>

\* run_trajectory is called (lines 39-56): an empty trajectory returns at
\* once, otherwise start_time is taken.
RunCall ==
    /\ rt_pc = "call"
    /\ rt_pc' = IF rt_waypoints = << >> THEN "done" ELSE "loop"
    /\ UNCHANGED <<rt_waypoints, rt_dry_run, rt_k, rt_now, rt_wait_time, rt_log>>
    /\ UNCHANGED exceptRun

\* A mutant of RunLoop: the commands are sent in a dry run too.
RunLoop_AlwaysDispatch ==
    /\ rt_pc = "loop"
    /\ IF rt_k > Len(rt_waypoints)
       THEN /\ rt_pc' = "done"
            /\ UNCHANGED rt_wait_time
       ELSE /\ rt_wait_time' = rt_waypoints[rt_k].time_s - rt_now
            /\ rt_pc' = "dispatch"
    /\ UNCHANGED <<rt_waypoints, rt_dry_run, rt_k, rt_now, rt_log>>
    /\ UNCHANGED exceptRun

\* The head of the for loop and lines 59-62: the next waypoint is taken and
\* wait_time computed, or the loop ends; dry_run skips the commands.
RunLoop ==
    /\ rt_pc = "loop"
    /\ IF rt_k > Len(rt_waypoints)
       THEN /\ rt_pc' = "done"
            /\ UNCHANGED rt_wait_time
       ELSE /\ rt_wait_time' = rt_waypoints[rt_k].time_s - rt_now
            /\ rt_pc' = IF rt_dry_run THEN "wait" ELSE "dispatch"
    /\ UNCHANGED <<rt_waypoints, rt_dry_run, rt_k, rt_now, rt_log>>
    /\ UNCHANGED exceptRun

\* Lines 62-65 (not dry_run): arm.move_joints(joints_rad, wait=0), then
\* arm._send_gripper_command(wp.gripper); reading wp.gripper raises
\* AttributeError when the waypoint has no such attribute.
RunDispatch ==
    /\ rt_pc = "dispatch"
    /\ \E latency \in 0..MaxLatency :
          LET wp == rt_waypoints[rt_k]
              sent == Append(rt_log,
                             Call("move_joints", "arm", rt_k, JointsRad(wp), rt_now))
          IN  /\ rt_now' = rt_now + latency
              /\ IF HasAttr(wp, "gripper")
                 THEN /\ rt_log' = Append(sent, Call("_send_gripper_command", "arm", rt_k,
                                                     wp.gripper, rt_now + latency))
                      /\ rt_pc' = "wait"
                 ELSE /\ rt_log' = sent
                      /\ rt_pc' = "raised"
    /\ UNCHANGED <<rt_waypoints, rt_dry_run, rt_k, rt_wait_time>>
    /\ UNCHANGED exceptRun

\* Lines 66-69: arm.wait(wait_time), or time.sleep(wait_time) in a dry run,
\* when wait_time is positive; a sleep lasts at least as long as asked.
RunWait ==
    /\ rt_pc = "wait"
    /\ IF rt_wait_time > 0
       THEN \E overshoot \in 0..MaxOvershoot :
               /\ rt_now' = rt_now + rt_wait_time + overshoot
               /\ rt_log' = Append(rt_log,
                                   Call(IF rt_dry_run THEN "time.sleep" ELSE "arm.wait",
                                        "arm", rt_k, rt_wait_time, rt_now))
       ELSE UNCHANGED <<rt_now, rt_log>>
    /\ rt_k' = rt_k + 1
    /\ rt_pc' = "loop"
    /\ UNCHANGED <<rt_waypoints, rt_dry_run, rt_wait_time>>
    /\ UNCHANGED exceptRun

NextRun == RunCall \/ RunLoop \/ RunDispatch \/ RunWait

----------------------------------------------------------------------------
(* Dual-arm executor: run_dual_trajectory *)

\* The keys of arms and trajectories, in dict order.  The model passes arms
\* for exactly the labels of the trajectories, so the ValueError of line 125
\* is not raised.
Labels == <<"he", "she">>
LabelSet == {Labels[i] : i \in 1..Len(Labels)}

MaxDualWaypoints == 2

MinOf(S) == CHOOSE x \in S : \A y \in S : x <= y

\* The labels of seq order that satisfy Keep, in order.
RECURSIVE Filter(_, _)
Filter(order, Keep) ==
    IF order = << >> THEN << >>
    ELSE (IF Head(order) \in Keep THEN <<Head(order)>> ELSE << >>)
         \o Filter(Tail(order), Keep)

\* All interleavings of two sequences of calls (two tasks on the pool).
RECURSIVE Merges(_, _)
Merges(a, b) ==
    IF a = << >> THEN {b}
    ELSE IF b = << >> THEN {a}
    ELSE {<<Head(a)>> \o m : m \in Merges(Tail(a), b)}
         \cup {<<Head(b)>> \o m : m \in Merges(a, Tail(b))}

InitDual ==
    /\ rd_pc = "call"
    /\ rd_trajectories \in [LabelSet -> Trajectories(MaxDualWaypoints)]
    /\ rd_dry_run \in BOOLEAN
    /\ rd_parallel \in BOOLEAN
    /\ rd_current = [l \in LabelSet |-> 1]
    /\ rd_now = 0
    /\ rd_next_time = 0
    /\ rd_wait_time = 0
    /\ rd_pending = << >>
    /\ rd_rounds = << >>
    /\ rd_log = << >>

IdleDual ==
    /\ rd_pc = "off"
    /\ rd_trajectories = [l \in LabelSet |-> << >>]
    /\ rd_dry_run = FALSE
    /\ rd_parallel = FALSE
    /\ rd_current = [l \in LabelSet |-> 1]
    /\ rd_now = 0
    /\ rd_next_time = 0
    /\ rd_wait_time = 0
    /\ rd_pending = << >>
    /\ rd_rounds = << >>
    /\ rd_log = << >>

\* current_waypoints[label] is None once the iterator is exhausted.
IsNone(l) == rd_current[l] > Len(rd_trajectories[l])
CurrentWaypoint(l) == rd_trajectories[l][rd_current[l]]

\* run_dual_trajectory is called (lines 125-162): no waypoint in any
\* trajectory returns at once; otherwise start_time is taken and each
\* iterator gives its first waypoint.
DualCall ==
    /\ rd_pc = "call"
    /\ rd_pc' = IF \A l \in LabelSet : rd_trajectories[l] = << >>
                THEN "done" ELSE "round"
    /\ UNCHANGED <<rd_trajectories, rd_dry_run, rd_parallel, rd_current, rd_now,
                   rd_next_time, rd_wait_time, rd_pending, rd_rounds, rd_log>>
    /\ UNCHANGED exceptDual

\* Lines 165-179: the loop ends when every iterator is exhausted; otherwise
\* next_time is the earliest current waypoint time, wait_time is taken, and
\* every arm whose current waypoint is within 1 ms of next_time joins
\* pending_commands and advances its iterator.
DualRound ==
    /\ rd_pc = "round"
    /\ IF \A l \in LabelSet : IsNone(l)
       THEN /\ rd_pc' = "done"
            /\ UNCHANGED <<rd_current, rd_next_time, rd_wait_time, rd_pending, rd_rounds>>
       ELSE LET next_time == MinOf({CurrentWaypoint(l).time_s :
                                       l \in {m \in LabelSet : ~IsNone(m)}})
                chosen == {l \in LabelSet :
                              /\ ~IsNone(l)
                              /\ Abs(CurrentWaypoint(l).time_s - next_time) < OneMs}
                order == Filter(Labels, chosen)
            IN  /\ rd_next_time' = next_time
                /\ rd_wait_time' = next_time - rd_now
                /\ rd_pending' = [i \in 1..Len(order) |-> <<order[i], rd_current[order[i]]>>]
                /\ rd_current' = [l \in LabelSet |->
                                     IF l \in chosen THEN rd_current[l] + 1 ELSE rd_current[l]]
                /\ rd_rounds' = Append(rd_rounds, [time |-> next_time,
                                                   arms |-> order,
                                                   before |-> rd_current])
                /\ rd_pc' = IF ~rd_dry_run /\ order # << >> THEN "dispatch" ELSE "wait"
    /\ UNCHANGED <<rd_trajectories, rd_dry_run, rd_parallel, rd_now, rd_log>>
    /\ UNCHANGED exceptDual

\* The waypoint of an entry of pending_commands.
PendingWaypoint(p) == rd_trajectories[p[1]][p[2]]

\* _send_arm_commands (lines 92-99), and the same two calls made inline in
\* sequential mode (lines 198-199).
SendArmCommands(p, at) ==
    <<Call("move_joints", p[1], p[2], JointsRad(PendingWaypoint(p)), at),
      Call("_send_gripper_command", p[1], p[2], PendingWaypoint(p).gripper, at)>>

\* How many leading entries of pending_commands have a gripper attribute.
RECURSIVE GripperPrefix(_)
GripperPrefix(pending) ==
    IF pending = << >> \/ ~HasAttr(PendingWaypoint(Head(pending)), "gripper")
    THEN 0
    ELSE 1 + GripperPrefix(Tail(pending))

\* The calls the tasks of the first n entries make, in any interleaving.
TaskCalls(pending, n, at) ==
    IF n = 0 THEN {<< >>}
    ELSE IF n = 1 THEN {SendArmCommands(pending[1], at)}
    ELSE Merges(SendArmCommands(pending[1], at), SendArmCommands(pending[2], at))

\* The calls of sequential mode up to and including the first move_joints
\* whose waypoint has no gripper attribute.
RECURSIVE SequentialCalls(_, _)
SequentialCalls(pending, at) ==
    IF pending = << >> THEN << >>
    ELSE IF HasAttr(PendingWaypoint(Head(pending)), "gripper")
         THEN SendArmCommands(Head(pending), at) \o SequentialCalls(Tail(pending), at)
         ELSE <<Call("move_joints", Head(pending)[1], Head(pending)[2],
                     JointsRad(PendingWaypoint(Head(pending))), at)>>

\* Lines 181-199 (not dry_run, pending_commands not empty).  Parallel: for
\* each entry in order the arguments of executor.submit are evaluated, so
\* reading wp.gripper raises before that entry's task is submitted; when all
\* are submitted, future.result() joins them.  Sequential: move_joints, then
\* wp.gripper is read.  An exception leaves the loop through the finally
\* clause (executor.shutdown(wait=False), lines 222-224).
DualDispatch ==
    /\ rd_pc = "dispatch"
    /\ \E latency \in 0..MaxLatency :
          LET n == GripperPrefix(rd_pending)
          IN  /\ rd_now' = rd_now + latency
              /\ rd_pc' = IF n = Len(rd_pending) THEN "wait" ELSE "raised"
              /\ IF rd_parallel
                 THEN \E calls \in TaskCalls(rd_pending, n, rd_now) :
                         rd_log' = rd_log \o calls
                 ELSE rd_log' = rd_log \o SequentialCalls(rd_pending, rd_now)
    /\ UNCHANGED <<rd_trajectories, rd_dry_run, rd_parallel, rd_current,
                   rd_next_time, rd_wait_time, rd_pending, rd_rounds>>
    /\ UNCHANGED exceptDual

\* Lines 201-204: first_arm.wait(wait_time), or time.sleep(wait_time) in a
\* dry run, when wait_time is positive.
DualWait ==
    /\ rd_pc = "wait"
    /\ IF rd_wait_time > 0
       THEN \E overshoot \in 0..MaxOvershoot :
               /\ rd_now' = rd_now + rd_wait_time + overshoot
               /\ rd_log' = Append(rd_log,
                                   Call(IF rd_dry_run THEN "time.sleep" ELSE "arm.wait",
                                        Labels[1], Len(rd_rounds), rd_wait_time, rd_now))
       ELSE UNCHANGED <<rd_now, rd_log>>
    /\ rd_pc' = "round"
    /\ UNCHANGED <<rd_trajectories, rd_dry_run, rd_parallel, rd_current,
                   rd_next_time, rd_wait_time, rd_pending, rd_rounds>>
    /\ UNCHANGED exceptDual

NextDual == DualCall \/ DualRound \/ DualDispatch \/ DualWait

----------------------------------------------------------------------------
(* Interpolation: src/piper/choreography/interpolation.py *)

EasingTypes == {"none", "ease_in", "ease_out", "ease_in_out"}

Cube(t) == RatMul(RatMul(t, t), t)

\* apply_easing (lines 36-66).
ApplyEasing(t, easing) ==
    CASE easing = "none" -> t
      [] easing = "ease_in" -> Cube(t)
      [] easing = "ease_out" -> RatSub(Rat(1), Cube(RatSub(Rat(1), t)))
      [] easing = "ease_in_out" ->
            IF RatLess(t, <<1, 2>>)
            THEN RatMul(Rat(4), Cube(t))
            ELSE RatSub(Rat(1),
                        RatMul(Cube(RatAdd(RatMul(Rat(-2), t), Rat(2))), <<1, 2>>))
      [] OTHER -> t

\* linear_interpolate (lines 21-33).
LinearInterpolate(start, end, t) == RatAdd(start, RatMul(RatSub(end, start), t))

\* A mutant of CubicSplineSegment: the t2 coefficient takes 3 * p2 for 4 * p2.
CubicSplineSegment_WrongBasis(p0, p1, p2, p3, t) ==
    LET t2 == RatMul(t, t)
        t3 == RatMul(t2, t)
        c1 == RatAdd(RatNeg(p0), p2)
        c2 == RatSub(RatAdd(RatSub(RatMul(Rat(2), p0), RatMul(Rat(5), p1)),
                            RatMul(Rat(3), p2)), p3)
        c3 == RatAdd(RatSub(RatAdd(RatNeg(p0), RatMul(Rat(3), p1)),
                            RatMul(Rat(3), p2)), p3)
    IN  RatMul(<<1, 2>>,
               RatAdd(RatAdd(RatAdd(RatMul(Rat(2), p1), RatMul(c1, t)),
                             RatMul(c2, t2)), RatMul(c3, t3)))

\* cubic_spline_segment (lines 91-119): Catmull-Rom.
CubicSplineSegment(p0, p1, p2, p3, t) ==
    LET t2 == RatMul(t, t)
        t3 == RatMul(t2, t)
        c1 == RatAdd(RatNeg(p0), p2)
        c2 == RatSub(RatAdd(RatSub(RatMul(Rat(2), p0), RatMul(Rat(5), p1)),
                            RatMul(Rat(4), p2)), p3)
        c3 == RatAdd(RatSub(RatAdd(RatNeg(p0), RatMul(Rat(3), p1)),
                            RatMul(Rat(3), p2)), p3)
    IN  RatMul(<<1, 2>>,
               RatAdd(RatAdd(RatAdd(RatMul(Rat(2), p1), RatMul(c1, t)),
                             RatMul(c2, t2)), RatMul(c3, t3)))

ValueError == [raised |-> "ValueError"]
IsRaised(x) == "raised" \in DOMAIN x

\* create_interpolator (lines 203-222) with the constructors (lines 130-146,
\* 228-236): fewer than 2 points raise ValueError.  Times are in ticks,
\* positions are joint lists of rationals.
CreateInterpolator(times, positions, interpolation) ==
    IF Len(times) # Len(positions) \/ Len(times) < 2 THEN ValueError
    ELSE [kind |-> IF interpolation = "cubic" THEN "cubic" ELSE "linear",
          times |-> times,
          positions |-> positions,
          n_points |-> Len(times)]

\* _find_segment (lines 148-167 and, the same, 238-251): the 0-based segment
\* index and the local fraction.
FindSegment(it, t) ==
    IF t <= it.times[1] THEN <<0, Rat(0)>>
    ELSE IF t >= it.times[it.n_points] THEN <<it.n_points - 2, Rat(1)>>
    ELSE LET hits == {i \in 0..(it.n_points - 2) :
                          it.times[i + 1] <= t /\ t < it.times[i + 2]}
         IN  IF hits = {} THEN <<it.n_points - 2, Rat(1)>>
             ELSE LET i == MinOf(hits)
                      duration == it.times[i + 2] - it.times[i + 1]
                  IN  <<i, IF duration > 0 THEN Frac(t - it.times[i + 1], duration)
                           ELSE Rat(0)>>

\* CubicSplineInterpolator.interpolate (lines 169-200).
CubicInterpolate(it, t, easing) ==
    LET seg == FindSegment(it, t)
        seg_idx == seg[1]
        local_t == ApplyEasing(seg[2], easing)
        i0 == Max(0, seg_idx - 1)
        i1 == seg_idx
        i2 == Min(it.n_points - 1, seg_idx + 1)
        i3 == Min(it.n_points - 1, seg_idx + 2)
    IN  [j \in 1..Len(it.positions[1]) |->
            CubicSplineSegment(it.positions[i0 + 1][j], it.positions[i1 + 1][j],
                               it.positions[i2 + 1][j], it.positions[i3 + 1][j],
                               local_t)]

\* LinearInterpolator.interpolate (lines 253-261).
LinearInterpolatorInterpolate(it, t, easing) ==
    LET seg == FindSegment(it, t)
        seg_idx == seg[1]
        local_t == ApplyEasing(seg[2], easing)
        start == it.positions[seg_idx + 1]
        end == it.positions[Min(seg_idx + 1, it.n_points - 1) + 1]
    IN  [j \in 1..Min(Len(start), Len(end)) |->
            LinearInterpolate(start[j], end[j], local_t)]

\* interpolator.interpolate(t, easing_type) on either class.
Interpolate(it, t, easing) ==
    IF it.kind = "cubic" THEN CubicInterpolate(it, t, easing)
    ELSE LinearInterpolatorInterpolate(it, t, easing)

----------------------------------------------------------------------------
(* Groove: src/piper/choreography/groove.py *)

JOINT_ORDER == <<"J1", "J2", "J3", "J4", "J5", "J6">>

DEFAULT_GROOVE_AMPLITUDES ==
    [J1 |-> Rat(0), J2 |-> Rat(2), J3 |-> <<3, 2>>, J4 |-> Rat(0), J5 |-> Rat(1),
     J6 |-> Rat(0)]

NULL_GROOVE_AMPLITUDES ==
    [J1 |-> Rat(0), J2 |-> Rat(0), J3 |-> Rat(0), J4 |-> Rat(0), J5 |-> Rat(0),
     J6 |-> Rat(0)]

\* An Optional value: << >> is None, <<v>> is v.
None == << >>
Some(v) == <<v>>

\* A mutant of CreateGrooveConfig: an absent or zero tempo falls back to 120
\* beats per minute with the default amplitudes.
CreateGrooveConfig_DefaultTempo(bpm, phase_offset_s) ==
    [bpm |-> IF bpm = None \/ bpm[1] = 0 THEN 120 ELSE bpm[1],
     amplitudes_deg |-> DEFAULT_GROOVE_AMPLITUDES,
     phase_offset_s |-> phase_offset_s, beat_multiplier |-> 1]

\* create_groove_config (lines 98-129): "if not bpm" holds for None and 0.
CreateGrooveConfig(bpm, phase_offset_s) ==
    IF bpm = None \/ bpm[1] = 0
    THEN [bpm |-> 0, amplitudes_deg |-> NULL_GROOVE_AMPLITUDES,
          phase_offset_s |-> 0, beat_multiplier |-> 1]
    ELSE [bpm |-> bpm[1], amplitudes_deg |-> DEFAULT_GROOVE_AMPLITUDES,
          phase_offset_s |-> phase_offset_s, beat_multiplier |-> 1]

\* compute_groove_offset (lines 35-60).  The offset is kept symbolic: zero,
\* or amplitude_deg * sin(2 pi * frequency_hz * (time_s + phase_offset_s)).
ComputeGrooveOffset(time_s, bpm, amplitude_deg, phase_offset_s, beat_multiplier) ==
    IF amplitude_deg = Rat(0) \/ bpm <= 0
    THEN [kind |-> "zero"]
    ELSE [kind |-> "sin", amplitude_deg |-> amplitude_deg, bpm |-> bpm,
          beat_multiplier |-> beat_multiplier, at |-> time_s + phase_offset_s]

\* result[i] += offset: adding 0.0 leaves the value as it is; any other
\* offset is kept beside the value, as a third component.
AddOffset(value, offset) ==
    IF offset.kind = "zero" THEN value
    ELSE <<value[1], value[2], offset>>

\* apply_groove_to_joints (lines 63-92).
ApplyGrooveToJoints(joints_deg, time_s, config, amplitude_scale) ==
    [i \in 1..Len(joints_deg) |->
        IF i <= Len(JOINT_ORDER)
        THEN AddOffset(joints_deg[i],
                       ComputeGrooveOffset(time_s, config.bpm,
                                           RatMul(config.amplitudes_deg[JOINT_ORDER[i]],
                                                  amplitude_scale),
                                           config.phase_offset_s, config.beat_multiplier))
        ELSE joints_deg[i]]

----------------------------------------------------------------------------
(* Trajectory compiler: src/piper/choreography/trajectory.py *)

\* The objects compile_trajectory reads: a checkpoint with time_s, pose_name
\* and groove_amplitude; a choreography with poses, checkpoints, bpm and
\* groove_phase.
Checkpoint(time_s, pose_name, groove_amplitude) ==
    [time_s |-> time_s, pose_name |-> pose_name, groove_amplitude |-> groove_amplitude]

Choreography(poses, checkpoints, bpm, groove_phase) ==
    [poses |-> poses, checkpoints |-> checkpoints, bpm |-> bpm,
     groove_phase |-> groove_phase]

Trajectory(waypoints, interval_ms, interpolation, easing, total_duration_s, groove_bpm) ==
    [waypoints |-> waypoints, interval_ms |-> interval_ms,
     interpolation |-> interpolation, easing |-> easing,
     total_duration_s |-> total_duration_s, groove_bpm |-> groove_bpm]

\* _interpolate_groove_amplitude (lines 39-73).
InterpolateGrooveAmplitude(time_s, checkpoints) ==
    LET n == Len(checkpoints)
    IN  IF n = 0 THEN Rat(1)
        ELSE IF time_s <= checkpoints[1].time_s THEN checkpoints[1].groove_amplitude
        ELSE IF time_s >= checkpoints[n].time_s THEN checkpoints[n].groove_amplitude
        ELSE LET hits == {i \in 1..(n - 1) : /\ checkpoints[i].time_s <= time_s
                                             /\ time_s <= checkpoints[i + 1].time_s}
             IN  IF hits = {} THEN Rat(1)
                 ELSE LET i == MinOf(hits)
                          t0 == checkpoints[i].time_s
                          t1 == checkpoints[i + 1].time_s
                          a0 == checkpoints[i].groove_amplitude
                          a1 == checkpoints[i + 1].groove_amplitude
                      IN  IF t1 = t0 THEN a0
                          ELSE RatAdd(a0, RatMul(Frac(time_s - t0, t1 - t0),
                                                 RatSub(a1, a0)))

Times(choreo) == [i \in 1..Len(choreo.checkpoints) |-> choreo.checkpoints[i].time_s]

\* positions (lines 112, 226): a copy of each checkpoint's pose joints.
Positions(choreo) ==
    [i \in 1..Len(choreo.checkpoints) |->
        choreo.poses[choreo.checkpoints[i].pose_name].joints_deg]

\* Which list object a joints_deg is.  The list of pose number p in the pose
\* dictionary of arm l is <<"pose", l, p>>; every list the compiler makes has
\* an identity of its own.
PoseNames == <<"A", "B", "C">>
PoseIndex(name) == CHOOSE p \in 1..Len(PoseNames) : PoseNames[p] = name
PoseRef(l, name) == <<"pose", l, PoseIndex(name)>>

\* A mutant of ListCopy: the copy is the list itself.
ListCopy_Alias(ref, fresh) == ref

\* list.copy(): a new list object.
ListCopy(ref, fresh) == fresh

\* positions[i] (lines 112, 226): a copy of the pose's list.
PositionsRef(choreo, l, i) ==
    ListCopy(PoseRef(l, choreo.checkpoints[i].pose_name), <<"positions", l, i>>)

\* interpolate builds its result in a new list (interpolation.py lines 183,
\* 261).
InterpolateRef(l, k) == <<"interpolated", l, k>>

\* apply_groove_to_joints works on result = joints_deg.copy() (groove.py line
\* 81) and returns it: the list of waypoint k.
ApplyGrooveRef(ref, l, k) == ListCopy(ref, <<"waypoint", l, k>>)

\* The lists of the waypoints of the "none" branch.
PassThroughRefs(choreo, l) ==
    [i \in 1..Len(choreo.checkpoints) |-> ApplyGrooveRef(PositionsRef(choreo, l, i), l, i)]

\* A write into the list object ref: it shows in the pose dictionary when the
\* object is a pose's list.
Store(choreographies, ref, joints_deg) ==
    IF ref[1] = "pose"
    THEN [choreographies EXCEPT ![ref[2]].poses[PoseNames[ref[3]]].joints_deg = joints_deg]
    ELSE choreographies

\* result[i] += offset (groove.py line 91), for each waypoint in turn.
RECURSIVE StoreAll(_, _, _, _)
StoreAll(choreographies, refs, waypoints, i) ==
    IF i > Len(waypoints) THEN choreographies
    ELSE StoreAll(Store(choreographies, refs[i], waypoints[i].joints_deg), refs, waypoints,
                  i + 1)

\* A mutant of PassThrough: the waypoints come out in reverse checkpoint order.
PassThrough_Reversed(choreo, interpolation, easing) ==
    LET groove == CreateGrooveConfig(choreo.bpm, choreo.groove_phase)
        n == Len(choreo.checkpoints)
    IN  Trajectory([i \in 1..n |->
                       Waypoint(choreo.checkpoints[n + 1 - i].time_s,
                                ApplyGrooveToJoints(Positions(choreo)[n + 1 - i],
                                                    choreo.checkpoints[n + 1 - i].time_s,
                                                    groove,
                                                    choreo.checkpoints[n + 1 - i].groove_amplitude))],
                   0, interpolation, easing, choreo.checkpoints[n].time_s, choreo.bpm)

\* The "none" branch of compile_trajectory (lines 115-130).
PassThrough(choreo, interpolation, easing) ==
    LET groove == CreateGrooveConfig(choreo.bpm, choreo.groove_phase)
        n == Len(choreo.checkpoints)
    IN  Trajectory([i \in 1..n |->
                       Waypoint(choreo.checkpoints[i].time_s,
                                ApplyGrooveToJoints(Positions(choreo)[i],
                                                    choreo.checkpoints[i].time_s, groove,
                                                    choreo.checkpoints[i].groove_amplitude))],
                   0, interpolation, easing, choreo.checkpoints[n].time_s, choreo.bpm)

\* The trajectory of a choreography without checkpoints (lines 101-109 with
\* interval_ms 0; lines 214-223 with the caller's interval_ms).
EmptyTrajectory(choreo, interval_ms, interpolation, easing) ==
    Trajectory(<< >>, interval_ms, interpolation, easing, 0, choreo.bpm)

\* all_times of compile_dual_trajectory (line 191).
AllTimes(choreographies) ==
    UNION {{choreographies[l].checkpoints[i].time_s :
               i \in 1..Len(choreographies[l].checkpoints)} : l \in DOMAIN choreographies}

MaxOf(S) == CHOOSE x \in S : \A y \in S : x >= y

\* A mutant of GlobalStart: the latest checkpoint time.
GlobalStart_Latest(all_times) == MaxOf(all_times)

\* global_start (line 206).
GlobalStart(all_times) == MinOf(all_times)

\* A mutant of GlobalEnd: the earliest checkpoint time.
GlobalEnd_Earliest(all_times) == MinOf(all_times)

\* global_end (line 207).
GlobalEnd(all_times) == MaxOf(all_times)

\* A mutant of NeedsFinalSample: the final sample is always appended.
NeedsFinalSample_Always(waypoints, end_time) == waypoints # << >>

\* The condition of lines 144 and 239: the last waypoint missed the end by
\* more than 0.001 s.
NeedsFinalSample(waypoints, end_time) ==
    /\ waypoints # << >>
    /\ Abs(waypoints[Len(waypoints)].time_s - end_time) > OneMs

\* One sample (lines 138-141 and 232-236): the joints interpolated at
\* interp_time, grooved at groove_time, as a waypoint at groove_time.
Sample(choreo, interpolator, interp_time, groove_time, easing) ==
    LET groove == CreateGrooveConfig(choreo.bpm, choreo.groove_phase)
        joints == Interpolate(interpolator, interp_time, easing)
        amp_scale == InterpolateGrooveAmplitude(interp_time, choreo.checkpoints)
    IN  Waypoint(groove_time, ApplyGrooveToJoints(joints, groove_time, groove, amp_scale))

\* The inputs.  Checkpoint times are whole milliseconds and strictly
\* increasing; the checkpoint at position k names pose A, B, C, A, ... and
\* has groove amplitude 1 (odd k) or 2 (even k); the tempo is absent, zero or
\* 120 beats per minute.  parse_schedule keeps the lines of the schedule in
\* file order and load_choreography only warns about a timestamp that does not
\* increase (script.py lines 102-116, 167-172), so a schedule in any order
\* reaches the compiler too: AnyOrderSchedules.
MaxCheckpoints == 3
MaxDualCheckpoints == 2
ScheduleTimes == {Ms(0), Ms(2), Ms(3), Ms(4)}
CompileIntervals == {1, 2, 3}
Interpolations == {"none", "linear", "cubic"}
Bpms == {None, Some(0), Some(120)}

Pose(name, joints_deg) == [name |-> name, joints_deg |-> joints_deg]

PoseC == <<Rat(30), Rat(45), Rat(-60), Rat(0), Rat(15), Rat(-90)>>
Poses == [A |-> Pose("A", PoseA), B |-> Pose("B", PoseB), C |-> Pose("C", PoseC)]

StrictlyIncreasing(ts) == \A i \in 1..(Len(ts) - 1) : ts[i] < ts[i + 1]

ScheduleOf(ts) ==
    [k \in 1..Len(ts) |->
        Checkpoint(ts[k], PoseNames[((k - 1) % Len(PoseNames)) + 1],
                   Rat(IF k % 2 = 1 THEN 1 ELSE 2))]

Schedules(n) ==
    {ScheduleOf(ts) : ts \in {q \in SeqsUpTo(ScheduleTimes, n) : StrictlyIncreasing(q)}}

Choreographies(n) == {Choreography(Poses, s, b, 0) : s \in Schedules(n), b \in Bpms}

AnyOrderSchedules(n) ==
    {ScheduleOf(ts) : ts \in {q \in SeqsUpTo(ScheduleTimes, n) : ~StrictlyIncreasing(q)}}

AnyOrderChoreographies(n) ==
    {Choreography(Poses, s, b, 0) : s \in AnyOrderSchedules(n), b \in Bpms}

\* Checkpoints A at 0 s and B at 2 s, no tempo.
ScenarioChoreography ==
    Choreography(Poses, <<Checkpoint(Ms(0), "A", Rat(1)), Checkpoint(Ms(2000), "B", Rat(1))>>,
                 None, 0)

ArmLabel == "arm"

InitCompile ==
    /\ cp_pc = "call"
    /\ \/ /\ cp_dual = FALSE
          /\ cp_choreographies \in [{ArmLabel} -> Choreographies(MaxCheckpoints)]
          /\ cp_interval_ms \in CompileIntervals
          /\ cp_interpolation \in Interpolations
          /\ cp_easing \in EasingTypes
       \/ /\ cp_dual = FALSE
          /\ cp_choreographies = [l \in {ArmLabel} |-> ScenarioChoreography]
          /\ cp_interval_ms = 100
          /\ cp_interpolation = "linear"
          /\ cp_easing = "none"
       \/ /\ cp_dual = FALSE
          /\ cp_choreographies \in [{ArmLabel} -> AnyOrderChoreographies(MaxCheckpoints)]
          /\ cp_interval_ms \in CompileIntervals
          /\ cp_interpolation = "none"
          /\ cp_easing \in EasingTypes
       \/ /\ cp_dual = TRUE
          /\ cp_choreographies \in [LabelSet -> Choreographies(MaxDualCheckpoints)]
          /\ cp_interval_ms \in CompileIntervals
          /\ cp_interpolation \in Interpolations
          /\ cp_easing \in EasingTypes
    /\ cp_label = 1
    /\ cp_current_time = 0
    /\ cp_waypoints = << >>
    /\ cp_result = << >>
    /\ cp_refs = << >>
    /\ cp_given = cp_choreographies
    /\ cp_first = << >>
    /\ cp_run = 1
    /\ cp_mutated = FALSE

IdleCompile ==
    /\ cp_pc = "off"
    /\ cp_dual = FALSE
    /\ cp_choreographies = << >>
    /\ cp_interval_ms = 0
    /\ cp_interpolation = "none"
    /\ cp_easing = "none"
    /\ cp_label = 1
    /\ cp_current_time = 0
    /\ cp_waypoints = << >>
    /\ cp_result = << >>
    /\ cp_refs = << >>
    /\ cp_given = cp_choreographies
    /\ cp_first = << >>
    /\ cp_run = 1
    /\ cp_mutated = FALSE

\* The labels in dict order, and the choreography being compiled.
CompileLabels == IF cp_dual THEN Labels ELSE <<ArmLabel>>
CurrentLabel == CompileLabels[cp_label]
CurrentChoreography == cp_choreographies[CurrentLabel]
CurrentInterpolator ==
    CreateInterpolator(Times(CurrentChoreography), Positions(CurrentChoreography),
                       cp_interpolation)

\* interval_s = interval_ms / 1000.0, in ticks.
\* How many waypoints of one sampling loop are followed.
MaxGridWaypoints == 24

\* Values of interval_ms a caller may pass (--interval takes any integer).
CallerIntervals == {-1, 0, 1, 3}

\* Choreographies of two checkpoints, 2 ms and 4 ms apart.
ShortChoreography ==
    Choreography(Poses, <<Checkpoint(Ms(1), "A", Rat(1)), Checkpoint(Ms(3), "B", Rat(1))>>,
                 None, 0)

LongChoreography ==
    Choreography(Poses, <<Checkpoint(Ms(0), "A", Rat(1)), Checkpoint(Ms(4), "B", Rat(1))>>,
                 None, 0)

\* compile_trajectory and compile_dual_trajectory are called on choreographies
\* of two checkpoints with any interval.
InitInterval ==
    /\ cp_pc = "call"
    /\ \/ /\ cp_dual = FALSE
          /\ cp_choreographies \in
                [{ArmLabel} -> {LongChoreography, ShortChoreography}]
       \/ /\ cp_dual = TRUE
          /\ cp_choreographies \in
                [LabelSet -> {LongChoreography, ShortChoreography}]
    /\ cp_interval_ms \in CallerIntervals
    /\ cp_interpolation \in Interpolations
    /\ cp_easing \in {"none", "ease_in_out"}
    /\ cp_label = 1
    /\ cp_current_time = 0
    /\ cp_waypoints = << >>
    /\ cp_result = << >>
    /\ cp_refs = << >>
    /\ cp_given = cp_choreographies
    /\ cp_first = << >>
    /\ cp_run = 1
    /\ cp_mutated = FALSE

IntervalTicks == Ms(cp_interval_ms)

\* Where the grid of the current choreography starts and ends: its own first
\* and last checkpoint time (lines 113, 136), or global_start and global_end
\* in compile_dual_trajectory (lines 206-207, 230).
GridStart ==
    IF cp_dual THEN GlobalStart(AllTimes(cp_choreographies))
    ELSE Times(CurrentChoreography)[1]

GridEnd ==
    IF cp_dual THEN GlobalEnd(AllTimes(cp_choreographies))
    ELSE Times(CurrentChoreography)[Len(CurrentChoreography.checkpoints)]

\* clamped_time (lines 232, 240); compile_trajectory interpolates at the grid
\* time itself.
InterpTime(t) ==
    IF cp_dual
    THEN Max(Times(CurrentChoreography)[1],
             Min(Times(CurrentChoreography)[Len(CurrentChoreography.checkpoints)], t))
    ELSE t

\* compile_trajectory(choreo, interpolation="none", easing=easing).
CompileNone(choreo) ==
    IF choreo.checkpoints = << >> THEN EmptyTrajectory(choreo, 0, "none", cp_easing)
    ELSE PassThrough(choreo, "none", cp_easing)

\* compile_trajectory up to its loop (lines 98-136), compile_dual_trajectory
\* up to its for loop (lines 182-210).
CompileCall ==
    /\ cp_pc = "call"
    /\ IF ~cp_dual
       THEN IF CurrentChoreography.checkpoints = << >>
            THEN /\ cp_result' = (ArmLabel :> EmptyTrajectory(CurrentChoreography, 0,
                                                              cp_interpolation, cp_easing))
                 /\ cp_refs' = (ArmLabel :> << >>)
                 /\ cp_pc' = "done"
                 /\ UNCHANGED <<cp_current_time, cp_waypoints, cp_choreographies>>
            ELSE IF cp_interpolation = "none"
            THEN LET t == CompileNone(CurrentChoreography)
                     refs == PassThroughRefs(CurrentChoreography, ArmLabel)
                 IN  /\ cp_result' = (ArmLabel :> t)
                     /\ cp_refs' = (ArmLabel :> refs)
                     /\ cp_choreographies' = StoreAll(cp_choreographies, refs, t.waypoints, 1)
                     /\ cp_pc' = "done"
                     /\ UNCHANGED <<cp_current_time, cp_waypoints>>
            ELSE IF IsRaised(CurrentInterpolator)
            THEN /\ cp_pc' = "raised"
                 /\ UNCHANGED <<cp_result, cp_refs, cp_current_time, cp_waypoints,
                                cp_choreographies>>
            ELSE /\ cp_current_time' = GridStart
                 /\ cp_waypoints' = << >>
                 /\ cp_result' = << >>
                 /\ cp_refs' = (ArmLabel :> << >>)
                 /\ cp_pc' = "grid"
                 /\ UNCHANGED cp_choreographies
       ELSE IF cp_interpolation = "none"
            THEN LET refs == [l \in LabelSet |-> PassThroughRefs(cp_choreographies[l], l)]
                     ts == [l \in LabelSet |-> CompileNone(cp_choreographies[l])]
                 IN  /\ cp_result' = ts
                     /\ cp_refs' = [l \in LabelSet |->
                                       IF cp_choreographies[l].checkpoints = << >> THEN << >>
                                       ELSE refs[l]]
                     /\ cp_choreographies' =
                           StoreAll(StoreAll(cp_choreographies, refs[Labels[1]],
                                             ts[Labels[1]].waypoints, 1),
                                    refs[Labels[2]], ts[Labels[2]].waypoints, 1)
                     /\ cp_pc' = "done"
                     /\ UNCHANGED <<cp_current_time, cp_waypoints>>
            ELSE IF AllTimes(cp_choreographies) = {}
            THEN /\ cp_result' = [l \in LabelSet |->
                                     EmptyTrajectory(cp_choreographies[l], cp_interval_ms,
                                                     cp_interpolation, cp_easing)]
                 /\ cp_refs' = [l \in LabelSet |-> << >>]
                 /\ cp_pc' = "done"
                 /\ UNCHANGED <<cp_current_time, cp_waypoints, cp_choreographies>>
            ELSE /\ cp_pc' = "arm"
                 /\ cp_result' = << >>
                 /\ cp_refs' = << >>
                 /\ UNCHANGED <<cp_current_time, cp_waypoints, cp_choreographies>>
    /\ UNCHANGED <<cp_dual, cp_interval_ms, cp_interpolation, cp_easing, cp_label,
                   callerVars>>
    /\ UNCHANGED exceptCompile

\* The head of the for loop of compile_dual_trajectory (lines 211-230): the
\* next choreography; one without checkpoints gets an empty trajectory.
CompileArm ==
    /\ cp_pc = "arm"
    /\ IF cp_label > Len(CompileLabels)
       THEN /\ cp_pc' = "done"
            /\ UNCHANGED <<cp_result, cp_refs, cp_label, cp_current_time, cp_waypoints>>
       ELSE IF CurrentChoreography.checkpoints = << >>
       THEN /\ cp_result' = cp_result @@
                               (CurrentLabel :> EmptyTrajectory(CurrentChoreography,
                                                                cp_interval_ms,
                                                                cp_interpolation, cp_easing))
            /\ cp_refs' = cp_refs @@ (CurrentLabel :> << >>)
            /\ cp_label' = cp_label + 1
            /\ UNCHANGED <<cp_pc, cp_current_time, cp_waypoints>>
       ELSE IF IsRaised(CurrentInterpolator)
       THEN /\ cp_pc' = "raised"
            /\ UNCHANGED <<cp_result, cp_refs, cp_label, cp_current_time, cp_waypoints>>
       ELSE /\ cp_current_time' = GridStart
            /\ cp_waypoints' = << >>
            /\ cp_refs' = cp_refs @@ (CurrentLabel :> << >>)
            /\ cp_pc' = "grid"
            /\ UNCHANGED <<cp_result, cp_label>>
    /\ UNCHANGED <<cp_dual, cp_choreographies, cp_interval_ms, cp_interpolation,
                   cp_easing, callerVars>>
    /\ UNCHANGED exceptCompile

\* One turn of the while loop (lines 137-142, 231-237); the list is followed
\* up to MaxGridWaypoints waypoints.
CompileGridStep ==
    /\ cp_pc = "grid"
    /\ cp_current_time <= GridEnd => Len(cp_waypoints) < MaxGridWaypoints
    /\ IF cp_current_time <= GridEnd
       THEN LET wp == Sample(CurrentChoreography, CurrentInterpolator,
                            InterpTime(cp_current_time), cp_current_time, cp_easing)
                k == Len(cp_waypoints) + 1
                ref == ApplyGrooveRef(InterpolateRef(CurrentLabel, k), CurrentLabel, k)
            IN  /\ cp_waypoints' = Append(cp_waypoints, wp)
                /\ cp_refs' = [cp_refs EXCEPT ![CurrentLabel] = Append(@, ref)]
                /\ cp_choreographies' = Store(cp_choreographies, ref, wp.joints_deg)
                /\ cp_current_time' = cp_current_time + IntervalTicks
                /\ UNCHANGED cp_pc
       ELSE /\ cp_pc' = "final"
            /\ UNCHANGED <<cp_waypoints, cp_refs, cp_choreographies, cp_current_time>>
    /\ UNCHANGED <<cp_dual, cp_interval_ms, cp_interpolation, cp_easing, cp_label,
                   cp_result, callerVars>>
    /\ UNCHANGED exceptCompile

\* The final sample and the Trajectory (lines 144-157, 239-253).
CompileFinal ==
    /\ cp_pc = "final"
    /\ LET final == NeedsFinalSample(cp_waypoints, GridEnd)
           wp == Sample(CurrentChoreography, CurrentInterpolator, InterpTime(GridEnd),
                        GridEnd, cp_easing)
           k == Len(cp_waypoints) + 1
           ref == ApplyGrooveRef(InterpolateRef(CurrentLabel, k), CurrentLabel, k)
           waypoints == IF final THEN Append(cp_waypoints, wp) ELSE cp_waypoints
       IN  /\ cp_waypoints' = waypoints
           /\ cp_refs' = IF final THEN [cp_refs EXCEPT ![CurrentLabel] = Append(@, ref)]
                         ELSE cp_refs
           /\ cp_choreographies' = IF final THEN Store(cp_choreographies, ref, wp.joints_deg)
                                   ELSE cp_choreographies
           /\ cp_result' = cp_result @@
                               (CurrentLabel :> Trajectory(waypoints, cp_interval_ms,
                                                           cp_interpolation, cp_easing,
                                                           GridEnd, CurrentChoreography.bpm))
    /\ IF cp_dual
       THEN cp_label' = cp_label + 1 /\ cp_pc' = "arm"
       ELSE cp_pc' = "done" /\ UNCHANGED cp_label
    /\ UNCHANGED <<cp_dual, cp_interval_ms, cp_interpolation, cp_easing, cp_current_time,
                   callerVars>>
    /\ UNCHANGED exceptCompile

NextCompile == CompileCall \/ CompileArm \/ CompileGridStep \/ CompileFinal

\* The caller of the compiler.  Waypoint.joints_deg is a plain list
\* (trajectory.py line 22): the caller writes 99.0 into J2 of one returned
\* waypoint.  The write shows in every waypoint and in every pose whose
\* joints_deg is that same list object.
MutatedJoints(joints_deg) == [joints_deg EXCEPT ![2] = Rat(99)]

CallerMutates ==
    /\ cp_pc = "done"
    /\ cp_run = 1
    /\ ~cp_mutated
    /\ \E l \in DOMAIN cp_result :
          \E k \in 1..Len(cp_result[l].waypoints) :
             LET ref == cp_refs[l][k]
                 joints_deg == MutatedJoints(cp_result[l].waypoints[k].joints_deg)
             IN  /\ cp_result' =
                       [m \in DOMAIN cp_result |->
                           [cp_result[m] EXCEPT !.waypoints =
                               [i \in 1..Len(cp_result[m].waypoints) |->
                                   IF cp_refs[m][i] = ref
                                   THEN Waypoint(cp_result[m].waypoints[i].time_s, joints_deg)
                                   ELSE cp_result[m].waypoints[i]]]]
                 /\ cp_choreographies' = Store(cp_choreographies, ref, joints_deg)
    /\ cp_first' = cp_result
    /\ cp_mutated' = TRUE
    /\ UNCHANGED <<cp_pc, cp_dual, cp_interval_ms, cp_interpolation, cp_easing, cp_label,
                   cp_current_time, cp_waypoints, cp_refs, cp_given, cp_run>>
    /\ UNCHANGED exceptCompile

\* The caller makes the same call again, with the same choreography objects
\* and the same options.
CompileAgain ==
    /\ cp_pc = "done"
    /\ cp_run = 1
    /\ cp_run' = 2
    /\ cp_first' = IF cp_mutated THEN cp_first ELSE cp_result
    /\ cp_pc' = "call"
    /\ cp_label' = 1
    /\ UNCHANGED <<cp_dual, cp_choreographies, cp_interval_ms, cp_interpolation, cp_easing,
                   cp_current_time, cp_waypoints, cp_result, cp_refs, cp_given, cp_mutated>>
    /\ UNCHANGED exceptCompile

NextCaller == CallerMutates \/ CompileAgain

\* The inputs of the two-call scenario: those of InitCompile with easing none
\* or ease_in_out.
InitPure ==
    /\ InitCompile
    /\ cp_easing \in {"none", "ease_in_out"}

----------------------------------------------------------------------------
(* Arm link: src/piper/adapters/waveshare.py, standard.py, src/piper/base.py *)

ARM_JOINT_FEEDBACK_ID_BASE == 677
ARM_JOINT_CTRL_ID_BASE == 341
ARM_MOTION_CTRL_2 == 337
GRIPPER_FEEDBACK_ID == 680
GRIPPER_COMMAND_ID == 345
ARM_MOTOR_ENABLE_ID == 1137

\* DEFAULT_MSG_DELAY and DEFAULT_STREAM_BURST_S, in units of 0.1 ms.
DEFAULT_MSG_DELAY == 50
DEFAULT_STREAM_BURST_S == 500

\* The full-scale gripper position, in 0.001 mm.
GripperRange == 70000

\* msg.arbitration_id as an integer.
ArbId(msg) == msg.arbitration_id.hi * 65536 + msg.arbitration_id.lo

\* int.from_bytes(b, 'big', signed=True) of four bytes.
FromBytes4(b) ==
    (IF b[1] >= 128 THEN b[1] - 256 ELSE b[1]) * 16777216
        + b[2] * 65536 + b[3] * 256 + b[4]

\* v.to_bytes(4, 'big', signed=True) of a value in the signed 32-bit range.
ToBytes4(v) ==
    <<(v \div 16777216) % 256, (v \div 65536) % 256, (v \div 256) % 256, v % 256>>

\* v.to_bytes(2, 'big', signed=False).
ToBytes2(v) == <<(v \div 256) % 256, v % 256>>

\* n / d for an integer n and a positive integer d, in lowest terms.
IntOver(n, d) ==
    LET g == Gcd(d, n % d)
    IN  <<n \div g, d \div g>>

\* int(x) of a rational: truncation toward zero.
Trunc(x) == IF x[1] >= 0 THEN x[1] \div x[2] ELSE -((-x[1]) \div x[2])

\* round(n / d) of positive integers: halves go to the even neighbour.
RoundDiv(n, d) ==
    LET q == n \div d
        r == n % d
    IN  IF 2 * r < d THEN q
        ELSE IF 2 * r > d THEN q + 1
        ELSE IF q % 2 = 0 THEN q ELSE q + 1

\* A mutant of Clamp01: the lower bound is left out.
Clamp01_NoFloor(x) == IF RatLess(Rat(1), x) THEN Rat(1) ELSE x

\* max(0.0, min(1.0, x)) as Python evaluates it: min returns its first
\* argument unless the second is smaller, max likewise for larger.
Clamp01(x) ==
    LET m == IF RatLess(x, Rat(1)) THEN x ELSE Rat(1)
    IN  IF RatLess(Rat(0), m) THEN m ELSE Rat(0)

\* A mutant of JointsAfter: the two values of the frame change places.
JointsAfter_Swapped(joints, msg) ==
    IF /\ ARM_JOINT_FEEDBACK_ID_BASE <= ArbId(msg)
       /\ ArbId(msg) <= ARM_JOINT_FEEDBACK_ID_BASE + 2
       /\ Len(msg.data) >= 8
    THEN LET idx == (ArbId(msg) - ARM_JOINT_FEEDBACK_ID_BASE) * 2
             j1 == IntOver(FromBytes4(SubSeq(msg.data, 1, 4)), 1000)
             j2 == IntOver(FromBytes4(SubSeq(msg.data, 5, 8)), 1000)
         IN  [joints EXCEPT ![idx + 1] = j2, ![idx + 2] = j1]
    ELSE joints

\* _process_feedback_msg: the cached joints after msg.  Angles are kept in
\* degrees; deg2rad and rad2deg are taken as exact.
JointsAfter(joints, msg) ==
    IF /\ ARM_JOINT_FEEDBACK_ID_BASE <= ArbId(msg)
       /\ ArbId(msg) <= ARM_JOINT_FEEDBACK_ID_BASE + 2
       /\ Len(msg.data) >= 8
    THEN LET idx == (ArbId(msg) - ARM_JOINT_FEEDBACK_ID_BASE) * 2
             j1 == IntOver(FromBytes4(SubSeq(msg.data, 1, 4)), 1000)
             j2 == IntOver(FromBytes4(SubSeq(msg.data, 5, 8)), 1000)
         IN  [joints EXCEPT ![idx + 1] = j1, ![idx + 2] = j2]
    ELSE joints

\* _process_feedback_msg: the cached gripper value after msg.
GripperAfter(gripper, msg) ==
    IF ArbId(msg) = GRIPPER_FEEDBACK_ID /\ Len(msg.data) >= 4
    THEN Clamp01(IntOver(FromBytes4(SubSeq(msg.data, 1, 4)), GripperRange))
    ELSE gripper

\* _process_feedback_msg: its return value.
IsFeedback(msg) ==
    \/ /\ ARM_JOINT_FEEDBACK_ID_BASE <= ArbId(msg)
       /\ ArbId(msg) <= ARM_JOINT_FEEDBACK_ID_BASE + 2
    \/ ArbId(msg) = GRIPPER_FEEDBACK_ID

\* A mutant of ReceivedAfter: only a frame that was applied counts.
ReceivedAfter_OnlyApplied(received, msg) ==
    IF /\ IsFeedback(msg)
       /\ 677 <= ArbId(msg)
       /\ ArbId(msg) <= 679
       /\ Len(msg.data) >= 8
    THEN received \cup {ArbId(msg)}
    ELSE received

\* _read_feedback: the received set after msg.
ReceivedAfter(received, msg) ==
    IF /\ IsFeedback(msg)
       /\ 677 <= ArbId(msg)
       /\ ArbId(msg) <= 679
    THEN received \cup {ArbId(msg)}
    ELSE received

\* The enable and motion-mode frames of _enable_arm and _send_command_set.
EnableFrame == Message(Id(ARM_MOTOR_ENABLE_ID), <<7, 2, 0, 0, 0, 0, 0, 0>>, FALSE, FALSE)

ModeFrame(speed_pct) ==
    Message(Id(ARM_MOTION_CTRL_2), <<1, 1, speed_pct, 0, 0, 0, 0, 0>>, FALSE, FALSE)

\* A mutant of SendCommandSet: a zero target is replaced by the cached angle.
SendCommandSet_HoldCached(joints, pos_mdeg, speed_pct) ==
    <<EnableFrame, ModeFrame(speed_pct)>>
    \o [i \in 1..3 |->
          LET j1 == IF pos_mdeg[2 * i - 1] = 0
                    THEN Trunc(RatMul(joints[2 * i - 1], Rat(1000)))
                    ELSE pos_mdeg[2 * i - 1]
          IN  Message(Id(ARM_JOINT_CTRL_ID_BASE + i - 1),
                      ToBytes4(j1) \o ToBytes4(pos_mdeg[2 * i]), FALSE, FALSE)]

\* _send_command_set: the frames it sends, in order.  joints is self._joints,
\* which the method has at hand and does not read.
SendCommandSet(joints, pos_mdeg, speed_pct) ==
    <<EnableFrame, ModeFrame(speed_pct)>>
    \o [i \in 1..3 |->
          Message(Id(ARM_JOINT_CTRL_ID_BASE + i - 1),
                  ToBytes4(pos_mdeg[2 * i - 1]) \o ToBytes4(pos_mdeg[2 * i]),
                  FALSE, FALSE)]

\* pos_mdeg of _send_joint_command.
ToMdeg(positions) == [i \in 1..Len(positions) |-> Trunc(RatMul(positions[i], Rat(1000)))]

\* The largest value to_bytes(4, 'big', signed=True) converts; the smallest
\* is -INT32_MAX - 1.  Anything else raises OverflowError (line 206).
INT32_MAX == 2147483647

\* Whether int(deg * 1000) lies in the signed 32-bit range, from the whole
\* degrees and the thousandths of the magnitude.
FitsInt32(deg) ==
    LET a == RatAbs(deg)
        whole == a[1] \div a[2]
        thousandths == ((a[1] % a[2]) * 1000) \div a[2]
    IN  \/ whole < INT32_MAX \div 1000
        \/ /\ whole = INT32_MAX \div 1000
           /\ thousandths <= (INT32_MAX % 1000) + (IF deg[1] < 0 THEN 1 ELSE 0)

\* How many joint pairs _send_command_set sends before to_bytes raises: the
\* pairs that precede the first one holding a value outside the range.
PairsSent(positions) ==
    IF ~FitsInt32(positions[1]) \/ ~FitsInt32(positions[2]) THEN 0
    ELSE IF ~FitsInt32(positions[3]) \/ ~FitsInt32(positions[4]) THEN 1
    ELSE IF ~FitsInt32(positions[5]) \/ ~FitsInt32(positions[6]) THEN 2
    ELSE 3

\* _send_joint_command raises OverflowError out of its first command set.
CommandSetRaises(positions) == PairsSent(positions) < 3

\* iterations of _send_joint_command's burst.
Iterations(stream_burst_s, msg_delay) == Max(1, RoundDiv(stream_burst_s, msg_delay))

RECURSIVE Repeat(_, _)
Repeat(frames, n) == IF n = 0 THEN << >> ELSE frames \o Repeat(frames, n - 1)

\* _send_gripper_command: the frame it sends.
GripperFrame(position, effort) ==
    Message(Id(GRIPPER_COMMAND_ID),
            ToBytes4(Trunc(RatMul(position, Rat(GripperRange)))) \o ToBytes2(effort)
                \o <<1, 0>>,
            FALSE, FALSE)

\* The frames _send_joint_command sends in burst mode (lines 221-229):
\* iterations command sets, or, when a target does not fit, the frames of
\* the first set that precede the raising to_bytes (the enable frame, the
\* mode frame and the pairs before that one).
JointCommandFrames(joints, positions, stream_burst_s, msg_delay) ==
    IF CommandSetRaises(positions)
    THEN SubSeq(SendCommandSet(joints,
                               ToMdeg([i \in 1..Len(positions) |->
                                          IF FitsInt32(positions[i]) THEN positions[i]
                                          ELSE Rat(0)]),
                               50),
                1, 2 + PairsSent(positions))
    ELSE Repeat(SendCommandSet(joints, ToMdeg(positions), 50),
                Iterations(stream_burst_s, msg_delay))

\* __init__: msg_delay and stream_burst_s from the arguments (None or a value).
InitMsgDelay(msg_delay) ==
    LET v == IF msg_delay # None THEN msg_delay[1] ELSE DEFAULT_MSG_DELAY
    IN  IF v <= 0 THEN DEFAULT_MSG_DELAY ELSE v

InitStreamBurst(stream_burst_s) ==
    LET v == IF stream_burst_s # None THEN stream_burst_s[1] ELSE DEFAULT_STREAM_BURST_S
    IN  IF v <= 0 THEN DEFAULT_STREAM_BURST_S ELSE v

\* ---- WaveshareBus: opening and sending (src/piper/can/waveshare_bus.py)

\* CAN_SPEEDS: the speed code of each supported bitrate.
CAN_SPEEDS ==
    (1000000 :> 1) @@ (800000 :> 2) @@ (500000 :> 3) @@ (400000 :> 4) @@ (250000 :> 5)
    @@ (200000 :> 6) @@ (125000 :> 7) @@ (100000 :> 8) @@ (50000 :> 9) @@ (20000 :> 10)
    @@ (10000 :> 11) @@ (5000 :> 12)

SerWrite(data) == [op |-> "write", data |-> data]
SerFlush == [op |-> "flush"]

\* A mutant of ConfigureSpeed: the speed code is always that of 1 Mbit/s.
ConfigureSpeed_FixedCode(bitrate) ==
    <<SerWrite(<<170, 85, 18, 1, 0, 0, 0, 0, 0, 0, 0, 0, 0, 0, 0, 0, 0, 0, 85>>), SerFlush>>

\* _configure_speed past its bitrate check (lines 109-125): the calls it makes
\* on the serial port.
ConfigureSpeed(bitrate) ==
    LET speed_code == CAN_SPEEDS[bitrate]
    IN  <<SerWrite(<<170, 85, 18, speed_code, 0, 0, 0, 0, 0, 0, 0, 0, 0, 0, 0, 0, 0, 0,
                     85>>),
          SerFlush>>

\* A mutant of BusSend: the frame is written and left unflushed.
BusSend_NoFlush(msg) == <<SerWrite(EncodeFrame(msg))>>

\* WaveshareBus.send (lines 187-189): the calls it makes on the serial port.
BusSend(msg) == <<SerWrite(EncodeFrame(msg)), SerFlush>>

\* send() of each message of a sequence, in order.
BusSendAll(msgs) == Concat([i \in 1..Len(msgs) |-> BusSend(msgs[i])])

\* ---- inputs

\* Bitrates a caller may ask for: supported ones and unsupported ones.
Bitrates == {1000000, 500000, 5000, 123456, 0}

\* Messages a caller of the bus may send; the last has an ID that does not
\* fit the standard ID field.
BusMessages ==
    {Message(Id(677), <<1, 2>>, FALSE, FALSE),
     Message(U32(1, 678), <<7>>, TRUE, FALSE),
     Message(Id(65536), <<1>>, FALSE, FALSE)}

\* How many messages a caller of the bus sends in one run.
MaxBusSends == 2

\* How many command-sending calls and state reads one run makes.
MaxCalls == 2

\* Raw values a feedback frame may carry in four bytes.
RawPositions ==
    {<<128, 0, 0, 0>>, <<255, 255, 255, 255>>, <<0, 0, 0, 0>>, <<0, 0, 136, 184>>,
     <<0, 1, 17, 112>>, <<0, 1, 17, 113>>, <<127, 255, 255, 255>>}

\* Frames the arm may send: gripper feedback with every raw value and with a
\* short payload, joint feedback of each pair, and a frame of another ID.
GripperFeedbackFrames ==
    {Message(Id(GRIPPER_FEEDBACK_ID), raw \o <<0, 0, 0, 0>>, FALSE, FALSE) :
        raw \in RawPositions}
    \cup {Message(Id(GRIPPER_FEEDBACK_ID), raw, FALSE, FALSE) :
            raw \in {<<0, 0, 136, 184>>, <<255, 255, 255>>}}

JointFeedbackFrames ==
    {Message(Id(ARM_JOINT_FEEDBACK_ID_BASE + i), <<0, 0, 3, 232>> \o <<255, 254, 160, 112>>,
             FALSE, FALSE) : i \in 0..2}
    \cup {Message(Id(ARM_JOINT_FEEDBACK_ID_BASE), <<0, 0, 3, 232>>, FALSE, FALSE)}

OtherFrames == {Message(Id(ARM_MOTION_CTRL_2), <<1, 1, 50, 0, 0, 0, 0, 0>>, FALSE, FALSE)}

ArmFrames == GripperFeedbackFrames \cup JointFeedbackFrames \cup OtherFrames

\* A full round of feedback, as the arm broadcasts it.
FullFeedback ==
    <<Message(Id(ARM_JOINT_FEEDBACK_ID_BASE), <<0, 0, 3, 232>> \o <<255, 254, 160, 112>>,
              FALSE, FALSE),
      Message(Id(ARM_JOINT_FEEDBACK_ID_BASE + 1), <<0, 0, 3, 232>> \o <<255, 254, 160, 112>>,
              FALSE, FALSE),
      Message(Id(ARM_JOINT_FEEDBACK_ID_BASE + 2), <<0, 0, 3, 232>> \o <<255, 254, 160, 112>>,
              FALSE, FALSE)>>

\* What the arm sends during one run: nothing, up to two frames of any kind,
\* a full round followed by one more frame, or a round whose first frame
\* reaches the link with four data bytes.
ArmTraffic ==
    SeqsUpTo(ArmFrames, 2)
    \cup {FullFeedback \o <<f>> : f \in GripperFeedbackFrames}
    \cup {<<Message(Id(ARM_JOINT_FEEDBACK_ID_BASE), <<0, 0, 3, 232>>, FALSE, FALSE),
            FullFeedback[2], FullFeedback[3]>>}

\* Targets of move_joints, in degrees; the last has a J3 beyond what four
\* bytes of millidegrees hold (move_joints takes any list of floats).
TargetPositions ==
    {<<Rat(0), Rat(0), Rat(0), Rat(0), Rat(0), Rat(0)>>,
     <<Rat(90), Frac(-1, 2000), Frac(3, 2), Rat(-100), Frac(1, 2000), Rat(0)>>,
     <<Rat(90), Rat(0), Rat(3000000), Rat(0), Rat(0), Rat(0)>>}

\* Targets of gripper().
TargetGrippers == {Rat(0), Frac(1, 2), Rat(1)}

\* The constructor's msg_delay and stream_burst_s arguments, in units of 0.1 ms.
TimingArguments ==
    {<<None, None>>, <<Some(0), Some(-10)>>, <<Some(250), Some(500)>>,
     <<Some(250), Some(100)>>}

\* The 0.05 s receive timeouts that fit in _read_feedback's timeout (ms).
RecvTimeoutMs == 50

Polls(timeout_ms) == timeout_ms \div RecvTimeoutMs

\* The rounds of the enable loop.
EnableRounds == 10

\* How many EnablePiper() attempts fit in ENABLE_TIMEOUT_S, at most.
MaxEnableAttempts == 3

NoCall == [op |-> "none"]

\* A call on self._piper and what it returned.
SdkCall(name, returned) == [call |-> name, returned |-> returned]

\* ---- WavesharePiperArm

IdleStandard ==
    /\ st_pc = "off"
    /\ st_connected = FALSE
    /\ st_left = 0
    /\ st_log = << >>

IdleWaveshare ==
    /\ wa_pc = "off"
    /\ wa_op = "none"
    /\ wa_connected = FALSE
    /\ wa_bus = FALSE
    /\ wa_msg_delay = DEFAULT_MSG_DELAY
    /\ wa_stream_burst_s = DEFAULT_STREAM_BURST_S
    /\ wa_joints = [i \in 1..6 |-> Rat(0)]
    /\ wa_gripper = Rat(0)
    /\ wa_rx = << >>
    /\ wa_msg = None
    /\ wa_received = {}
    /\ wa_left = 0
    /\ wa_round = 0
    /\ wa_sent = << >>
    /\ wa_call = NoCall

IdleBus ==
    /\ bus_pc = "off"
    /\ bus_bitrate = 0
    /\ ser_log = << >>

IdleArm == IdleWaveshare /\ IdleStandard /\ IdleBus

\* The state after WavesharePiperArm(...) (lines 62-84), with what the arm
\* will send, or after StandardPiperArm(...).
InitArm ==
    \/ /\ wa_pc = "new"
       /\ wa_op = "none"
       /\ wa_connected = FALSE
       /\ wa_bus = FALSE
       /\ \E args \in TimingArguments :
            /\ wa_msg_delay = InitMsgDelay(args[1])
            /\ wa_stream_burst_s = InitStreamBurst(args[2])
       /\ wa_joints = [i \in 1..6 |-> Rat(0)]
       /\ wa_gripper = Rat(0)
       /\ wa_rx \in ArmTraffic
       /\ wa_msg = None
       /\ wa_received = {}
       /\ wa_left = 0
       /\ wa_round = 0
       /\ wa_sent = << >>
       /\ wa_call = NoCall
       /\ IdleStandard
       /\ bus_pc = "new"
       /\ bus_bitrate = 1000000
       /\ ser_log = << >>
    \/ /\ IdleWaveshare
       /\ st_pc = "new"
       /\ st_connected = FALSE
       /\ st_left \in 1..MaxEnableAttempts
       /\ st_log = << >>
       /\ IdleBus
    \/ /\ IdleWaveshare
       /\ IdleStandard
       /\ bus_pc = "new"
       /\ bus_bitrate \in Bitrates
       /\ ser_log = << >>

\* connect() up to the call of _enable_arm (base.py 75, waveshare.py 86-100):
\* no adapter found or the serial port failing to open raises; otherwise the bus
\* is open and _read_feedback(timeout=0.5) begins.
WaConnect ==
    /\ wa_pc = "new"
    /\ \E opened \in BOOLEAN :
         IF opened
         THEN /\ wa_bus' = TRUE
              /\ bus_pc' = "open"
              /\ ser_log' = ser_log \o ConfigureSpeed(bus_bitrate)
              /\ UNCHANGED bus_bitrate
              /\ wa_pc' = "feedback"
              /\ wa_op' = "connect"
              /\ wa_left' = Polls(500)
              /\ wa_received' = {}
         ELSE /\ wa_pc' = "raised"
              /\ UNCHANGED <<wa_bus, wa_op, wa_left, wa_received>>
              /\ UNCHANGED busVars
    /\ UNCHANGED <<wa_connected, wa_msg_delay, wa_stream_burst_s, wa_joints, wa_gripper,
                   wa_rx, wa_round, wa_sent, wa_call>>
    /\ UNCHANGED <<wa_msg, st_pc, st_connected, st_left, st_log>>
    /\ UNCHANGED exceptArm

\* One pass of _read_feedback's loop (lines 140-146): recv returns the next
\* frame, which is processed, or times out.
WaRecv ==
    /\ wa_pc = "feedback"
    /\ wa_left > 0
    /\ Cardinality(wa_received) < 3
    /\ \/ /\ wa_rx # << >>
          /\ LET msg == Head(wa_rx)
             IN  /\ wa_joints' = JointsAfter(wa_joints, msg)
                 /\ wa_gripper' = GripperAfter(wa_gripper, msg)
                 /\ wa_received' = ReceivedAfter(wa_received, msg)
          /\ wa_rx' = Tail(wa_rx)
          /\ wa_msg' = Some(Head(wa_rx))
          /\ UNCHANGED wa_left
       \/ /\ wa_left' = wa_left - 1
          /\ wa_msg' = None
          /\ UNCHANGED <<wa_joints, wa_gripper, wa_received, wa_rx>>
    /\ UNCHANGED <<wa_pc, wa_op, wa_connected, wa_bus, wa_msg_delay, wa_stream_burst_s,
                   wa_round, wa_sent, wa_call>>
    /\ UNCHANGED <<st_pc, st_connected, st_left, st_log>>
    /\ UNCHANGED busVars
    /\ UNCHANGED exceptArm

\* _read_feedback returns len(received) >= 3 (line 148).  _enable_arm drops
\* the value (line 114) and goes on to the enable loop; _get_joints and
\* _get_gripper drop it too (lines 176, 180) and return the cache.
WaReadFeedbackReturn ==
    /\ wa_pc = "feedback"
    /\ wa_left = 0 \/ Cardinality(wa_received) >= 3
    /\ wa_pc' = IF wa_op = "connect" THEN "enable" ELSE "ready"
    /\ wa_round' = 0
    /\ UNCHANGED <<wa_op, wa_connected, wa_bus, wa_msg_delay, wa_stream_burst_s, wa_joints,
                   wa_gripper, wa_rx, wa_received, wa_left, wa_sent, wa_call>>
    /\ UNCHANGED <<wa_msg, st_pc, st_connected, st_left, st_log>>
    /\ UNCHANGED busVars
    /\ UNCHANGED exceptArm

\* A mutant of WaEnableRound: the mode frame goes out ahead of the enable frame.
WaEnableRound_ModeFirst ==
    /\ wa_pc = "enable"
    /\ wa_round < EnableRounds
    /\ wa_sent' = wa_sent \o <<ModeFrame(50), EnableFrame>>
    /\ ser_log' = ser_log \o BusSendAll(<<ModeFrame(50), EnableFrame>>)
    /\ wa_round' = wa_round + 1
    /\ UNCHANGED <<wa_pc, wa_op, wa_connected, wa_bus, wa_msg_delay, wa_stream_burst_s,
                   wa_joints, wa_gripper, wa_rx, wa_received, wa_left, wa_call>>
    /\ UNCHANGED <<wa_msg, st_pc, st_connected, st_left, st_log>>
    /\ UNCHANGED <<bus_pc, bus_bitrate>>
    /\ UNCHANGED exceptArm

\* One round of the enable loop (lines 118-129): an enable frame and a mode
\* frame; nothing is read.
WaEnableRound ==
    /\ wa_pc = "enable"
    /\ wa_round < EnableRounds
    /\ wa_sent' = wa_sent \o <<EnableFrame, ModeFrame(50)>>
    /\ ser_log' = ser_log \o BusSendAll(<<EnableFrame, ModeFrame(50)>>)
    /\ wa_round' = wa_round + 1
    /\ UNCHANGED <<wa_pc, wa_op, wa_connected, wa_bus, wa_msg_delay, wa_stream_burst_s,
                   wa_joints, wa_gripper, wa_rx, wa_received, wa_left, wa_call>>
    /\ UNCHANGED <<wa_msg, st_pc, st_connected, st_left, st_log>>
    /\ UNCHANGED <<bus_pc, bus_bitrate>>
    /\ UNCHANGED exceptArm

\* _enable_arm and _connect return; connect() sets _connected (base.py 76).
WaConnectReturn ==
    /\ wa_pc = "enable"
    /\ wa_round = EnableRounds
    /\ wa_connected' = TRUE
    /\ wa_pc' = "ready"
    /\ UNCHANGED <<wa_op, wa_bus, wa_msg_delay, wa_stream_burst_s, wa_joints, wa_gripper,
                   wa_rx, wa_received, wa_left, wa_round, wa_sent, wa_call>>
    /\ UNCHANGED <<wa_msg, st_pc, st_connected, st_left, st_log>>
    /\ UNCHANGED busVars
    /\ UNCHANGED exceptArm

CallsMade == IF wa_call = NoCall THEN 0 ELSE wa_call.n

\* move_joints(positions, wait) -> _send_joint_command(positions) with
\* duration 0 (base.py 96, waveshare.py 221-229): the burst of command sets,
\* or the OverflowError of a target that does not fit.
WaSendJointCommand ==
    /\ wa_pc = "ready"
    /\ CallsMade < MaxCalls
    /\ \E positions \in TargetPositions :
         /\ wa_sent' = wa_sent \o
                JointCommandFrames(wa_joints, positions, wa_stream_burst_s, wa_msg_delay)
         /\ ser_log' = ser_log \o
                BusSendAll(JointCommandFrames(wa_joints, positions, wa_stream_burst_s,
                                              wa_msg_delay))
         /\ wa_call' = [op |-> "_send_joint_command", positions |-> positions,
                        n |-> CallsMade + 1]
         /\ wa_pc' = IF CommandSetRaises(positions) THEN "overflow" ELSE wa_pc
    /\ UNCHANGED <<wa_op, wa_connected, wa_bus, wa_msg_delay, wa_stream_burst_s,
                   wa_joints, wa_gripper, wa_rx, wa_received, wa_left, wa_round>>
    /\ UNCHANGED <<wa_msg, st_pc, st_connected, st_left, st_log>>
    /\ UNCHANGED <<bus_pc, bus_bitrate>>
    /\ UNCHANGED exceptArm

\* gripper(position, wait) -> _send_gripper_command(position) (base.py 121,
\* waveshare.py 261-272).
WaSendGripperCommand ==
    /\ wa_pc = "ready"
    /\ CallsMade < MaxCalls
    /\ \E position \in TargetGrippers :
         /\ wa_sent' = Append(wa_sent, GripperFrame(position, 1000))
         /\ ser_log' = ser_log \o BusSend(GripperFrame(position, 1000))
         /\ wa_call' = [op |-> "_send_gripper_command", position |-> position,
                        n |-> CallsMade + 1]
    /\ UNCHANGED <<wa_pc, wa_op, wa_connected, wa_bus, wa_msg_delay, wa_stream_burst_s,
                   wa_joints, wa_gripper, wa_rx, wa_received, wa_left, wa_round>>
    /\ UNCHANGED <<wa_msg, st_pc, st_connected, st_left, st_log>>
    /\ UNCHANGED <<bus_pc, bus_bitrate>>
    /\ UNCHANGED exceptArm

\* _get_joints() or _get_gripper() (lines 175-181): _read_feedback() with its
\* default timeout begins.
WaGetState ==
    /\ wa_pc = "ready"
    /\ CallsMade < MaxCalls
    /\ wa_pc' = "feedback"
    /\ wa_op' = "state"
    /\ wa_left' = Polls(500)
    /\ wa_received' = {}
    /\ wa_call' = [op |-> "_read_feedback", n |-> CallsMade + 1]
    /\ UNCHANGED <<wa_connected, wa_bus, wa_msg_delay, wa_stream_burst_s, wa_joints,
                   wa_gripper, wa_rx, wa_round, wa_sent>>
    /\ UNCHANGED <<wa_msg, st_pc, st_connected, st_left, st_log>>
    /\ UNCHANGED busVars
    /\ UNCHANGED exceptArm

\* ---- StandardPiperArm.connect (base.py 73-77, standard.py 56-88)

\* _connect up to the enable loop: no socketcan interface raises; otherwise
\* the SDK interface is made and ConnectPort() called.
StConnect ==
    /\ st_pc = "new"
    /\ \E found \in BOOLEAN :
         IF found
         THEN /\ st_pc' = "enabling"
              /\ st_log' = Append(st_log, SdkCall("ConnectPort", "None"))
         ELSE /\ st_pc' = "raised"
              /\ UNCHANGED st_log
    /\ UNCHANGED <<st_connected, st_left>>
    /\ UNCHANGED <<wa_pc, wa_op, wa_connected, wa_bus, wa_msg_delay, wa_stream_burst_s,
                   wa_joints, wa_gripper, wa_rx, wa_received, wa_left, wa_round, wa_sent,
                   wa_call, wa_msg>>
    /\ UNCHANGED busVars
    /\ UNCHANGED exceptArm

\* One pass of the enable loop (lines 72-77): EnablePiper() answers true and
\* _connect goes on to MotionCtrl_2 and returns, connect() setting _connected;
\* or it answers false and the loop sleeps one retry interval.
StEnableAttempt ==
    /\ st_pc = "enabling"
    /\ st_left > 0
    /\ \E enabled \in BOOLEAN :
         IF enabled
         THEN /\ st_log' = st_log \o <<SdkCall("EnablePiper", "True"),
                                        SdkCall("MotionCtrl_2", "None")>>
              /\ st_pc' = "connected"
              /\ st_connected' = TRUE
              /\ UNCHANGED st_left
         ELSE /\ st_log' = Append(st_log, SdkCall("EnablePiper", "False"))
              /\ st_left' = st_left - 1
              /\ UNCHANGED <<wa_msg, st_pc, st_connected>>
    /\ UNCHANGED <<wa_pc, wa_op, wa_connected, wa_bus, wa_msg_delay, wa_stream_burst_s,
                   wa_joints, wa_gripper, wa_rx, wa_received, wa_left, wa_round, wa_sent,
                   wa_call, wa_msg>>
    /\ UNCHANGED busVars
    /\ UNCHANGED exceptArm

\* A mutant of StEnableTimeout: the timeout is passed over and connect() completes.
StEnableTimeout_Soft ==
    /\ st_pc = "enabling"
    /\ st_left = 0
    /\ st_pc' = "connected"
    /\ st_connected' = TRUE
    /\ st_log' = Append(st_log, SdkCall("MotionCtrl_2", "None"))
    /\ UNCHANGED st_left
    /\ UNCHANGED <<wa_pc, wa_op, wa_connected, wa_bus, wa_msg_delay, wa_stream_burst_s,
                   wa_joints, wa_gripper, wa_rx, wa_received, wa_left, wa_round, wa_sent,
                   wa_call, wa_msg>>
    /\ UNCHANGED busVars
    /\ UNCHANGED exceptArm

\* ENABLE_TIMEOUT_S has passed with enabled still False: RuntimeError
\* (lines 79-80).
StEnableTimeout ==
    /\ st_pc = "enabling"
    /\ st_left = 0
    /\ st_pc' = "raised"
    /\ UNCHANGED <<st_connected, st_left, st_log>>
    /\ UNCHANGED <<wa_pc, wa_op, wa_connected, wa_bus, wa_msg_delay, wa_stream_burst_s,
                   wa_joints, wa_gripper, wa_rx, wa_received, wa_left, wa_round, wa_sent,
                   wa_call, wa_msg>>
    /\ UNCHANGED busVars
    /\ UNCHANGED exceptArm

\* ---- WaveshareBus used directly

\* WaveshareBus(channel, bitrate) (lines 81-102): the serial port opens or
\* raises; _configure_speed raises ValueError for an unsupported bitrate and
\* otherwise writes the settings frame.
BusOpen ==
    /\ bus_pc = "new"
    /\ wa_pc = "off"
    /\ \E opened \in BOOLEAN :
         IF opened /\ bus_bitrate \in DOMAIN CAN_SPEEDS
         THEN /\ bus_pc' = "open"
              /\ ser_log' = ser_log \o ConfigureSpeed(bus_bitrate)
         ELSE /\ bus_pc' = "raised"
              /\ UNCHANGED ser_log
    /\ UNCHANGED <<bus_bitrate, waVars, stVars>>
    /\ UNCHANGED exceptArm

\* bus.send(msg): a message whose ID does not pack raises struct.error before
\* anything is written.
BusSendCall ==
    /\ bus_pc = "open"
    /\ wa_pc = "off"
    /\ Len(ser_log) < 2 + 2 * MaxBusSends
    /\ \E msg \in BusMessages :
         IF EncodeFrame(msg) = StructError
         THEN UNCHANGED ser_log
         ELSE ser_log' = ser_log \o BusSend(msg)
    /\ UNCHANGED <<bus_pc, bus_bitrate, waVars, stVars>>
    /\ UNCHANGED exceptArm

NextArm ==
    \/ BusOpen \/ BusSendCall
    \/ WaConnect \/ WaRecv \/ WaReadFeedbackReturn \/ WaEnableRound \/ WaConnectReturn
    \/ WaSendJointCommand \/ WaSendGripperCommand \/ WaGetState
    \/ StConnect \/ StEnableAttempt \/ StEnableTimeout

----------------------------------------------------------------------------
(* Choreography loader: src/piper/choreography/script.py *)

\* JOINT_MAX_SPEED_DEG and JOINT_LIMITS_DEG, by position in JOINT_ORDER.
JOINT_MAX_SPEED_DEG == [idx \in 1..6 |-> Rat(172)]

JOINT_LIMITS_DEG ==
    <<<<Rat(-150), Rat(150)>>, <<Rat(0), Rat(180)>>, <<Rat(-170), Rat(0)>>,
      <<Rat(-100), Rat(100)>>, <<Rat(-70), Rat(70)>>, <<Rat(-120), Rat(120)>>>>

\* x / y for rationals, y positive.
RatDiv(x, y) == Frac(x[1] * y[2], x[2] * y[1])

\* Checkpoint(time_s, pose_name) of parse_schedule (lines 109-114), from the
\* minutes, seconds and milliseconds of a line taken together as milliseconds.
ScriptCheckpoint(ms, pose_name) == [time_s |-> Frac(ms, 1000), pose_name |-> pose_name]

ParseSchedule(lines) == [i \in 1..Len(lines) |-> ScriptCheckpoint(lines[i][1], lines[i][2])]

\* The loop of lines 137-142: some checkpoint names a pose the file lacks.
MissingPose(poses, checkpoints) ==
    \E i \in 1..Len(checkpoints) : checkpoints[i].pose_name \notin DOMAIN poses

\* The warnings of lines 152-159 for one pose.
JointLimitWarnings(pose) ==
    LET Outside(idx) ==
            LET pos == pose.joints_deg[idx]
                lower == JOINT_LIMITS_DEG[idx][1]
                upper == JOINT_LIMITS_DEG[idx][2]
            IN  RatLess(pos, lower) \/ RatLess(upper, pos)
        Warning(idx) ==
            [kind |-> "Joint limit", pose |-> pose.name, joint |-> JOINT_ORDER[idx]]
    IN  Concat([idx \in 1..6 |-> IF Outside(idx) THEN <<Warning(idx)>> ELSE << >>])

\* The loop of lines 145-159: each pose is validated at its first checkpoint.
RECURSIVE ValidatePoses(_, _, _)
ValidatePoses(poses, checkpoints, validated_poses) ==
    IF checkpoints = << >> THEN << >>
    ELSE LET cp == Head(checkpoints)
         IN  IF cp.pose_name \in validated_poses
             THEN ValidatePoses(poses, Tail(checkpoints), validated_poses)
             ELSE JointLimitWarnings(poses[cp.pose_name])
                  \o ValidatePoses(poses, Tail(checkpoints),
                                   validated_poses \cup {cp.pose_name})

\* A mutant of SpeedExceeds: a speed at the limit counts as a violation.
SpeedExceeds_AtLimit(speed, max_speed) == ~RatLess(speed, max_speed)

\* speed > max_speed (line 182).
SpeedExceeds(speed, max_speed) == RatLess(max_speed, speed)

\* The body of the loop of lines 162-186 for one pair of checkpoints.
PairWarnings(poses, prev, curr) ==
    LET duration == RatSub(curr.time_s, prev.time_s)
    IN  IF ~RatLess(Rat(0), duration)
        THEN <<[kind |-> "Invalid timing", prev |-> prev.pose_name,
                curr |-> curr.pose_name]>>
        ELSE LET prev_pose == poses[prev.pose_name]
                 curr_pose == poses[curr.pose_name]
                 Speed(idx) ==
                     RatDiv(RatAbs(RatSub(curr_pose.joints_deg[idx],
                                          prev_pose.joints_deg[idx])),
                            duration)
             IN  Concat([idx \in 1..6 |->
                    IF SpeedExceeds(Speed(idx), JOINT_MAX_SPEED_DEG[idx])
                    THEN <<[kind |-> "Speed limit", prev |-> prev.pose_name,
                            curr |-> curr.pose_name, joint |-> JOINT_ORDER[idx],
                            speed |-> Speed(idx)]>>
                    ELSE << >>])

SpeedWarnings(poses, checkpoints) ==
    Concat([i \in 1..(Len(checkpoints) - 1) |->
               PairWarnings(poses, checkpoints[i], checkpoints[i + 1])])

\* A mutant of LoadChoreography: a pose outside the joint limits is fatal too.
LoadChoreography_StrictLimits(poses, lines) ==
    LET checkpoints == ParseSchedule(lines)
    IN  IF MissingPose(poses, checkpoints) THEN ValueError
        ELSE IF ValidatePoses(poses, checkpoints, {}) # << >> THEN ValueError
        ELSE [poses |-> poses,
              checkpoints |-> checkpoints,
              warnings |-> SpeedWarnings(poses, checkpoints)]

\* load_choreography (lines 132-188) on the loaded poses and the matched
\* schedule lines.
LoadChoreography(poses, lines) ==
    LET checkpoints == ParseSchedule(lines)
    IN  IF MissingPose(poses, checkpoints) THEN ValueError
        ELSE [poses |-> poses,
              checkpoints |-> checkpoints,
              warnings |-> ValidatePoses(poses, checkpoints, {})
                           \o SpeedWarnings(poses, checkpoints)]

\* ---- inputs

\* How many checkpoints a schedule file has, at most.
MaxScheduleLines == 3

\* A poses file: all joints of "rest" within their limits; "j1" 200 degrees
\* from it on J1, within limits; "j2" 200 degrees from it on J2, outside J2's
\* limit; "j6" 172 degrees from it on J6; "two" 200 degrees from it on J1 and
\* on J4.
ScriptPoses ==
    [rest |-> Pose("rest", <<Rat(-100), Rat(0), Rat(0), Rat(-100), Rat(0), Rat(-86)>>),
     j1 |-> Pose("j1", <<Rat(100), Rat(0), Rat(0), Rat(-100), Rat(0), Rat(-86)>>),
     j2 |-> Pose("j2", <<Rat(-100), Rat(200), Rat(0), Rat(-100), Rat(0), Rat(-86)>>),
     j6 |-> Pose("j6", <<Rat(-100), Rat(0), Rat(0), Rat(-100), Rat(0), Rat(86)>>),
     two |-> Pose("two", <<Rat(100), Rat(0), Rat(0), Rat(100), Rat(0), Rat(-86)>>)]

\* The pose names a schedule may use: those of the file and one it lacks.
ScheduleNames == DOMAIN ScriptPoses \cup {"ghost"}

\* The times a schedule line may give, in ms.
ScheduleMs == {0, 500, 1000, 2000}

\* The matched lines of a schedule file, in file order; nothing orders the times.
ScheduleLines == SeqsUpTo(ScheduleMs \X ScheduleNames, MaxScheduleLines)

IdleLoad ==
    /\ ld_pc = "off"
    /\ ld_poses = << >>
    /\ ld_schedule = << >>
    /\ ld_result = << >>
    /\ ld_warnings = << >>

InitLoad ==
    /\ ld_pc = "call"
    /\ ld_poses = ScriptPoses
    /\ ld_schedule \in ScheduleLines
    /\ ld_result = << >>
    /\ ld_warnings = << >>

\* load_choreography(poses_path, schedule_path): returns the choreography with
\* its warnings, or raises ValueError.
LoadCall ==
    /\ ld_pc = "call"
    /\ LET result == LoadChoreography(ld_poses, ld_schedule)
       IN  /\ ld_pc' = IF IsRaised(result) THEN "raised" ELSE "done"
           /\ ld_result' = result
           /\ ld_warnings' = IF IsRaised(result) THEN << >> ELSE result.warnings
    /\ UNCHANGED <<ld_poses, ld_schedule>>
    /\ UNCHANGED exceptLoad

NextLoad == LoadCall

-----------------------------------------------------------------------------
(* Startup sequence: src/piper/choreography/startup.py *)

STARTUP_DURATION_S == 7
STARTUP_SETTLE_S == 3
STARTUP_J6_OFFSET == 60
J6_INDEX == 5

\* A float number of whole seconds, as a time of the model.
Seconds(n) == Ms(1000 * n)

\* A mutant of ShiftTrajectoryTimes: the waypoints keep their times.
ShiftTrajectoryTimes_DurationOnly(trajectory, offset_s) ==
    Trajectory(trajectory.waypoints, trajectory.interval_ms, trajectory.interpolation,
               trajectory.easing, trajectory.total_duration_s + offset_s,
               trajectory.groove_bpm)

\* shift_trajectory_times (trajectory.py lines 258-281): new waypoints, each
\* with the offset added to its time and a copy of its joints.
ShiftTrajectoryTimes(trajectory, offset_s) ==
    Trajectory([k \in 1..Len(trajectory.waypoints) |->
                   Waypoint(trajectory.waypoints[k].time_s + offset_s,
                            trajectory.waypoints[k].joints_deg)],
               trajectory.interval_ms, trajectory.interpolation, trajectory.easing,
               trajectory.total_duration_s + offset_s, trajectory.groove_bpm)

\* key_times (line 40).
KeyTimes ==
    <<Seconds(0), Seconds(STARTUP_SETTLE_S), Seconds(4), Seconds(5), Seconds(6),
      Seconds(7)>>

\* key_j6_positions (lines 41-48).
KeyJ6Positions(start_j6) ==
    <<start_j6, start_j6, RatAdd(start_j6, Rat(STARTUP_J6_OFFSET)), start_j6,
      RatSub(start_j6, Rat(STARTUP_J6_OFFSET)), start_j6>>

\* The joints of one key position (lines 53-55 and 60-63): a copy of the
\* starting joints with J6 replaced.
KeyJoints(starting_joints, j6) == [starting_joints EXCEPT ![J6_INDEX + 1] = j6]

\* The loop of lines 70-74: a waypoint every interval_s while current_time is
\* before the end of the startup.
RECURSIVE StartupSamples(_, _, _)
StartupSamples(interpolator, current_time, interval_s) ==
    IF current_time < Seconds(STARTUP_DURATION_S)
    THEN <<Waypoint(current_time, Interpolate(interpolator, current_time, "none"))>>
         \o StartupSamples(interpolator, current_time + interval_s, interval_s)
    ELSE << >>

\* create_startup_waypoints (lines 15-80).
CreateStartupWaypoints(starting_joints, interval_ms) ==
    LET start_j6 == starting_joints[J6_INDEX + 1]
        key_j6_positions == KeyJ6Positions(start_j6)
        positions == [k \in 1..Len(KeyTimes) |->
                         KeyJoints(starting_joints, key_j6_positions[k])]
    IN  IF interval_ms <= 0
        THEN [k \in 1..Len(KeyTimes) |-> Waypoint(KeyTimes[k], positions[k])]
        ELSE LET interpolator == CreateInterpolator(KeyTimes, positions, "linear")
                 waypoints == StartupSamples(interpolator, Seconds(0), Ms(interval_ms))
             IN  IF waypoints = << >>
                    \/ Abs(waypoints[Len(waypoints)].time_s - Seconds(STARTUP_DURATION_S))
                           > OneMs
                 THEN Append(waypoints,
                             Waypoint(Seconds(STARTUP_DURATION_S), starting_joints))
                 ELSE waypoints

\* prepend_startup_sequence (lines 83-111).
PrependStartupSequence(trajectory, starting_joints) ==
    LET shifted == ShiftTrajectoryTimes(trajectory, Seconds(STARTUP_DURATION_S))
        startup_waypoints == CreateStartupWaypoints(starting_joints, trajectory.interval_ms)
        combined_waypoints == startup_waypoints \o shifted.waypoints
    IN  Trajectory(combined_waypoints, trajectory.interval_ms, trajectory.interpolation,
                   trajectory.easing, shifted.total_duration_s, trajectory.groove_bpm)

\* The trajectories given: up to MaxStartupWaypoints waypoints at whole
\* seconds, in any order of time, with the sampling intervals below (0 is
\* the checkpoint mode of interpolation "none").
MaxStartupWaypoints == 2

StartupIntervals == {0, 1000, 2000, 2333, 3500, 6999, 7000}

StartupWaypointTimes == {Seconds(0), Seconds(1), Seconds(2)}

StartupTrajectories ==
    {Trajectory(wps, interval_ms, IF interval_ms = 0 THEN "none" ELSE "linear", "none",
                IF wps = << >> THEN Seconds(0) ELSE wps[Len(wps)].time_s, None) :
        wps \in SeqsUpTo({Waypoint(t, p) : t \in StartupWaypointTimes, p \in {PoseA, PoseC}},
                         MaxStartupWaypoints),
        interval_ms \in StartupIntervals}

StartingJoints == {PoseA, PoseC}

IdleStart ==
    /\ su_pc = "off"
    /\ su_trajectory = << >>
    /\ su_starting_joints = << >>
    /\ su_given = << >>
    /\ su_result = << >>

InitStart ==
    /\ su_pc = "call"
    /\ su_trajectory \in StartupTrajectories
    /\ su_starting_joints \in StartingJoints
    /\ su_given = su_trajectory
    /\ su_result = << >>

\* One call of prepend_startup_sequence: it builds new waypoint and trajectory
\* objects and assigns to nothing it was given.
PrependCall ==
    /\ su_pc = "call"
    /\ su_result' = PrependStartupSequence(su_trajectory, su_starting_joints)
    /\ su_pc' = "done"
    /\ UNCHANGED <<su_trajectory, su_starting_joints, su_given>>
    /\ UNCHANGED exceptStart

NextStart == PrependCall

-----------------------------------------------------------------------------
(* Timed streaming: _send_joint_command with duration > 0
   (src/piper/adapters/waveshare.py lines 231-249) *)

\* How many passes of the send loop may fit in duration.
MaxPasses == 2

\* What the arm sends while the call runs.
TimedTraffic == SeqsUpTo(JointFeedbackFrames \cup OtherFrames, 2)

IdleTimed ==
    /\ tm_pc = "off"
    /\ tm_reader = "none"
    /\ tm_stop = FALSE
    /\ tm_passes = 0
    /\ tm_left = 0
    /\ tm_pos_mdeg = << >>
    /\ tm_sent = << >>
    /\ tm_rx = << >>
    /\ tm_joints = [i \in 1..6 |-> Rat(0)]
    /\ tm_gripper = Rat(0)
    /\ tm_log = << >>
    /\ tm_late_polls = 0

\* A connected arm on which _send_joint_command(positions, duration) is
\* called with duration > 0; pos_mdeg is computed (line 219).
InitTimed ==
    /\ tm_pc = "call"
    /\ tm_reader = "none"
    /\ tm_stop = FALSE
    /\ tm_passes \in 0..MaxPasses
    /\ tm_left = tm_passes
    /\ \E positions \in {p \in TargetPositions : ~CommandSetRaises(p)} :
          tm_pos_mdeg = ToMdeg(positions)
    /\ tm_sent = << >>
    /\ tm_rx \in TimedTraffic
    /\ tm_joints = [i \in 1..6 |-> Rat(0)]
    /\ tm_gripper = Rat(0)
    /\ tm_log = << >>
    /\ tm_late_polls = 0

\* ---- the calling thread

\* Lines 232-242: stop_flag is made, the reader thread is started, and start
\* is taken.
TimedStart ==
    /\ tm_pc = "call"
    /\ tm_stop' = FALSE
    /\ tm_reader' = "head"
    /\ tm_log' = Append(tm_log, "reader_thread.start")
    /\ tm_pc' = "loop"
    /\ UNCHANGED <<tm_passes, tm_left, tm_pos_mdeg, tm_sent, tm_rx, tm_joints,
                   tm_gripper, tm_late_polls>>
    /\ UNCHANGED exceptTimed

\* One pass of the send loop (lines 244-246): a command set, then
\* time.sleep(self.msg_delay).
TimedSendSet ==
    /\ tm_pc = "loop"
    /\ tm_left > 0
    /\ tm_sent' = tm_sent \o SendCommandSet(tm_joints, tm_pos_mdeg, 50)
    /\ tm_left' = tm_left - 1
    /\ tm_log' = Append(tm_log, "_send_command_set")
    /\ UNCHANGED <<tm_pc, tm_reader, tm_stop, tm_passes, tm_pos_mdeg, tm_rx, tm_joints,
                   tm_gripper, tm_late_polls>>
    /\ UNCHANGED exceptTimed

\* The loop ends when duration has passed; stop_flag.set() (line 248).
TimedStop ==
    /\ tm_pc = "loop"
    /\ tm_left = 0
    /\ tm_stop' = TRUE
    /\ tm_log' = Append(tm_log, "stop_flag.set")
    /\ tm_pc' = "join"
    /\ UNCHANGED <<tm_reader, tm_passes, tm_left, tm_pos_mdeg, tm_sent, tm_rx,
                   tm_joints, tm_gripper, tm_late_polls>>
    /\ UNCHANGED exceptTimed

\* reader_thread.join(timeout=0.5) (line 249) returns when the thread has
\* ended or when 0.5 s have passed, whichever the scheduler brings first; the
\* call then returns.
TimedJoin ==
    /\ tm_pc = "join"
    /\ \E timed_out \in BOOLEAN :
          /\ timed_out \/ tm_reader = "exited"
          /\ tm_log' = Append(tm_log, IF tm_reader = "exited" THEN "joined" ELSE "join timed out")
    /\ tm_pc' = "returned"
    /\ UNCHANGED <<tm_reader, tm_stop, tm_passes, tm_left, tm_pos_mdeg, tm_sent,
                   tm_rx, tm_joints, tm_gripper, tm_late_polls>>
    /\ UNCHANGED exceptTimed

NextSender == TimedStart \/ TimedSendSet \/ TimedStop \/ TimedJoin

\* ---- feedback_reader (lines 234-238)

\* A mutant of ReaderHead: the loop does not look at the flag.
ReaderHead_IgnoresFlag ==
    /\ tm_reader = "head"
    /\ tm_reader' = "recv"
    /\ UNCHANGED <<tm_pc, tm_stop, tm_passes, tm_left, tm_pos_mdeg, tm_sent, tm_rx,
                   tm_joints, tm_gripper, tm_late_polls, tm_log>>
    /\ UNCHANGED exceptTimed

\* The head of the while loop (line 235): the thread ends when the flag is
\* set, otherwise it calls self._bus.recv(timeout=0.05).
ReaderHead ==
    /\ tm_reader = "head"
    /\ IF tm_stop
       THEN /\ tm_reader' = "exited"
            /\ tm_log' = Append(tm_log, "reader ends")
       ELSE /\ tm_reader' = "recv"
            /\ UNCHANGED tm_log
    /\ UNCHANGED <<tm_pc, tm_stop, tm_passes, tm_left, tm_pos_mdeg, tm_sent, tm_rx,
                   tm_joints, tm_gripper, tm_late_polls>>
    /\ UNCHANGED exceptTimed

\* recv returns a frame, which _process_feedback_msg takes, or None at its
\* timeout (lines 236-238); the loop goes back to its head.
ReaderRecv ==
    /\ tm_reader = "recv"
    /\ \/ /\ tm_rx # << >>
          /\ tm_joints' = JointsAfter(tm_joints, Head(tm_rx))
          /\ tm_gripper' = GripperAfter(tm_gripper, Head(tm_rx))
          /\ tm_rx' = Tail(tm_rx)
       \/ UNCHANGED <<tm_rx, tm_joints, tm_gripper>>
    /\ tm_late_polls' = IF tm_stop THEN tm_late_polls + 1 ELSE tm_late_polls
    /\ tm_reader' = "head"
    /\ UNCHANGED <<tm_pc, tm_stop, tm_passes, tm_left, tm_pos_mdeg, tm_sent, tm_log>>
    /\ UNCHANGED exceptTimed

NextReader == ReaderHead \/ ReaderRecv

NextTimed == NextSender \/ NextReader

----------------------------------------------------------------------------
(* One parallel round of run_dual_trajectory
   (src/piper/choreography/runner.py, lines 181-194 and 222-224), for waypoints
   that carry the gripper attribute the runner reads *)

\* What the calls of an arm's task do.
PoolOutcomes == {"ok", "move_raises", "gripper_raises"}

\* How many command sets the burst of one move_joints(wait=0) sends here.
BurstSets == 2

IdlePool ==
    /\ pl_pc = "off"
    /\ pl_pending = << >>
    /\ pl_outcome = [l \in LabelSet |-> "ok"]
    /\ pl_task = [l \in LabelSet |-> "none"]
    /\ pl_left = [l \in LabelSet |-> 0]
    /\ pl_joined = 0
    /\ pl_log = << >>

\* pending_commands holds one arm or both, in the order of the dict.
InitPool ==
    /\ pl_pc = "submit"
    /\ pl_pending \in {Filter(Labels, S) : S \in (SUBSET LabelSet) \ {{}}}
    /\ pl_outcome \in [LabelSet -> PoolOutcomes]
    /\ pl_task = [l \in LabelSet |-> "none"]
    /\ pl_left = [l \in LabelSet |-> 0]
    /\ pl_joined = 0
    /\ pl_log = << >>

Submitted == Cardinality({l \in LabelSet : pl_task[l] # "none"})

\* What a task sends: late is set once the caller has seen the error.
Sent(arm, op) == [arm |-> arm, op |-> op, late |-> pl_pc = "raised"]

\* executor.submit(_send_arm_commands, ...) for the next entry (lines 184-192):
\* a worker is free (max_workers=len(arms), line 162) and takes the task.
PoolSubmit ==
    /\ pl_pc = "submit"
    /\ LET l == pl_pending[Submitted + 1]
       IN  /\ pl_task' = [pl_task EXCEPT ![l] = "running"]
           /\ pl_left' = [pl_left EXCEPT ![l] = BurstSets]
    /\ pl_pc' = IF Submitted + 1 = Len(pl_pending) THEN "join" ELSE "submit"
    /\ UNCHANGED <<pl_pending, pl_outcome, pl_joined, pl_log>>
    /\ UNCHANGED exceptPool

\* arm.move_joints(joints_rad, wait=0) in a task (line 98): one command set
\* of the burst, or the exception.
TaskMove(l) ==
    /\ pl_task[l] = "running"
    /\ IF pl_outcome[l] = "move_raises"
       THEN /\ pl_task' = [pl_task EXCEPT ![l] = "failed"]
            /\ UNCHANGED <<pl_left, pl_log>>
       ELSE /\ pl_log' = Append(pl_log, Sent(l, "command_set"))
            /\ pl_left' = [pl_left EXCEPT ![l] = @ - 1]
            /\ pl_task' = [pl_task EXCEPT ![l] = IF pl_left[l] = 1 THEN "moved" ELSE @]
    /\ UNCHANGED <<pl_pc, pl_pending, pl_outcome, pl_joined>>
    /\ UNCHANGED exceptPool

\* arm._send_gripper_command(gripper) in a task (line 99), and the task ends.
TaskGripper(l) ==
    /\ pl_task[l] = "moved"
    /\ IF pl_outcome[l] = "gripper_raises"
       THEN /\ pl_task' = [pl_task EXCEPT ![l] = "failed"]
            /\ UNCHANGED pl_log
       ELSE /\ pl_log' = Append(pl_log, Sent(l, "gripper"))
            /\ pl_task' = [pl_task EXCEPT ![l] = "done"]
    /\ UNCHANGED <<pl_pc, pl_pending, pl_outcome, pl_left, pl_joined>>
    /\ UNCHANGED exceptPool

\* future.result() for the next future (lines 193-194): it returns when that
\* task has ended, or raises the task's exception; the exception leaves the
\* loop through finally: executor.shutdown(wait=False) (lines 222-224), which
\* does not wait for the tasks that are running.
PoolJoin ==
    /\ pl_pc = "join"
    /\ LET l == pl_pending[pl_joined + 1]
       IN  \/ /\ pl_task[l] = "done"
              /\ pl_joined' = pl_joined + 1
              /\ pl_pc' = IF pl_joined + 1 = Len(pl_pending) THEN "returned" ELSE "join"
           \/ /\ pl_task[l] = "failed"
              /\ pl_pc' = "raised"
              /\ UNCHANGED pl_joined
    /\ UNCHANGED <<pl_pending, pl_outcome, pl_task, pl_left, pl_log>>
    /\ UNCHANGED exceptPool

NextPool ==
    \/ PoolSubmit
    \/ PoolJoin
    \/ \E l \in LabelSet : TaskMove(l)
    \/ \E l \in LabelSet : TaskGripper(l)

----------------------------------------------------------------------------
(* Connection lifecycle: PiperArmBase.connect, disconnect, __enter__, __exit__
   (src/piper/base.py, lines 73-84 and 151-156) over WavesharePiperArm._connect
   and _disconnect (src/piper/adapters/waveshare.py, lines 86-105) *)

\* How _connect ends: it returns; it raises before the bus is built (no port
\* found, or the serial port does not open); it raises in _enable_arm, after
\* self._bus was assigned (line 99).
ConnectOutcomes == {"completed", "raised_before_open", "raised_after_open"}

\* How many calls one run makes on the arm.
MaxLifecycleCalls == 4

IdleLife ==
    /\ lc_pc = "off"
    /\ lc_connected = FALSE
    /\ lc_bus = "none"
    /\ lc_depth = 0
    /\ lc_log = << >>

\* __init__ (base.py 40-42, waveshare.py 83): not connected, no bus.
InitLife ==
    /\ lc_pc = "idle"
    /\ lc_connected = FALSE
    /\ lc_bus = "none"
    /\ lc_depth = 0
    /\ lc_log = << >>

\* self._bus after _connect ended in the given way.
BusAfterConnect(bus, outcome) ==
    IF outcome = "raised_before_open" THEN bus ELSE "open"

\* self._connected after connect() whose _connect ended in the given way
\* (base.py 75-76): the assignment is reached only if _connect returned.
ConnectedAfterConnect(connected, outcome) ==
    IF outcome = "completed" THEN TRUE ELSE connected

\* A mutant of CallsDisconnect: _disconnect is called whatever the flag says.
CallsDisconnect_Always(connected) == TRUE

\* disconnect() calls _disconnect only if the flag is set (base.py 81-82).
CallsDisconnect(connected) == connected

\* self._bus after disconnect() (base.py 81-83, waveshare.py 102-105).
BusAfterDisconnect(bus, connected) ==
    IF CallsDisconnect(connected) THEN "none" ELSE bus

LifeEvent(op, outcome, called) ==
    [op |-> op, outcome |-> outcome, called |-> called,
     before |-> lc_connected, after |-> lc_connected',
     bus_before |-> lc_bus, bus_after |-> lc_bus']

\* connect() (base.py 73-77).
LcConnect ==
    /\ lc_pc = "idle"
    /\ Len(lc_log) < MaxLifecycleCalls
    /\ \E outcome \in ConnectOutcomes :
          /\ lc_bus' = BusAfterConnect(lc_bus, outcome)
          /\ lc_connected' = ConnectedAfterConnect(lc_connected, outcome)
          /\ lc_log' = Append(lc_log, LifeEvent("connect", outcome, FALSE))
    /\ UNCHANGED <<lc_pc, lc_depth>>
    /\ UNCHANGED exceptLife

\* disconnect() (base.py 79-84).
LcDisconnect ==
    /\ lc_pc = "idle"
    /\ Len(lc_log) < MaxLifecycleCalls
    /\ lc_bus' = BusAfterDisconnect(lc_bus, lc_connected)
    /\ lc_connected' = FALSE
    /\ lc_log' = Append(lc_log, LifeEvent("disconnect", "returned",
                                          CallsDisconnect(lc_connected)))
    /\ UNCHANGED <<lc_pc, lc_depth>>
    /\ UNCHANGED exceptLife

\* __enter__ (base.py 151-153): connect(); the block is entered only if it
\* returned.
LcEnter ==
    /\ lc_pc = "idle"
    /\ Len(lc_log) < MaxLifecycleCalls
    /\ \E outcome \in ConnectOutcomes :
          /\ lc_bus' = BusAfterConnect(lc_bus, outcome)
          /\ lc_connected' = ConnectedAfterConnect(lc_connected, outcome)
          /\ lc_depth' = IF outcome = "completed" THEN lc_depth + 1 ELSE lc_depth
          /\ lc_log' = Append(lc_log, LifeEvent("__enter__", outcome, FALSE))
    /\ UNCHANGED lc_pc
    /\ UNCHANGED exceptLife

\* __exit__ (base.py 155-156), however the block was left: disconnect().
LcExit ==
    /\ lc_pc = "idle"
    /\ lc_depth > 0
    /\ lc_bus' = BusAfterDisconnect(lc_bus, lc_connected)
    /\ lc_connected' = FALSE
    /\ lc_depth' = lc_depth - 1
    /\ lc_log' = Append(lc_log, LifeEvent("__exit__", "returned",
                                          CallsDisconnect(lc_connected)))
    /\ UNCHANGED lc_pc
    /\ UNCHANGED exceptLife

NextLife == LcConnect \/ LcDisconnect \/ LcEnter \/ LcExit

----------------------------------------------------------------------------
(* Specifications *)

InitSpecCodec == InitCodec /\ IdleRecv /\ IdleRun /\ IdleDual /\ IdleCompile
    /\ IdleArm /\ IdleLoad /\ IdleStart /\ IdleTimed /\ IdlePool /\ IdleLife

InitSpecRecv == InitRecv /\ IdleCodec /\ IdleRun /\ IdleDual /\ IdleCompile
    /\ IdleArm /\ IdleLoad /\ IdleStart /\ IdleTimed /\ IdlePool /\ IdleLife

InitSpecRun == InitRun /\ IdleCodec /\ IdleRecv /\ IdleDual /\ IdleCompile
    /\ IdleArm /\ IdleLoad /\ IdleStart /\ IdleTimed /\ IdlePool /\ IdleLife

InitSpecDual == InitDual /\ IdleCodec /\ IdleRecv /\ IdleRun /\ IdleCompile
    /\ IdleArm /\ IdleLoad /\ IdleStart /\ IdleTimed /\ IdlePool /\ IdleLife

InitSpecCompile == InitCompile /\ IdleCodec /\ IdleRecv /\ IdleRun /\ IdleDual
    /\ IdleArm /\ IdleLoad /\ IdleStart /\ IdleTimed /\ IdlePool /\ IdleLife

InitSpecPure == InitPure /\ IdleCodec /\ IdleRecv /\ IdleRun /\ IdleDual
    /\ IdleArm /\ IdleLoad /\ IdleStart /\ IdleTimed /\ IdlePool /\ IdleLife

NextPure == NextCompile \/ NextCaller

InitSpecArm == InitArm /\ IdleCodec /\ IdleRecv /\ IdleRun /\ IdleDual /\ IdleCompile
    /\ IdleLoad /\ IdleStart /\ IdleTimed /\ IdlePool /\ IdleLife

InitSpecLoad == InitLoad /\ IdleCodec /\ IdleRecv /\ IdleRun /\ IdleDual /\ IdleCompile
    /\ IdleArm /\ IdleStart /\ IdleTimed /\ IdlePool /\ IdleLife

InitSpecStart == InitStart /\ IdleCodec /\ IdleRecv /\ IdleRun /\ IdleDual /\ IdleCompile
    /\ IdleArm /\ IdleLoad /\ IdleTimed /\ IdlePool /\ IdleLife

InitSpecNoisy == InitNoisy /\ IdleCodec /\ IdleRun /\ IdleDual /\ IdleCompile
    /\ IdleArm /\ IdleLoad /\ IdleStart /\ IdleTimed /\ IdlePool /\ IdleLife

InitSpecTimed == InitTimed /\ IdleCodec /\ IdleRecv /\ IdleRun /\ IdleDual /\ IdleCompile
    /\ IdleArm /\ IdleLoad /\ IdleStart /\ IdlePool /\ IdleLife

InitSpecInterval == InitInterval /\ IdleCodec /\ IdleRecv /\ IdleRun /\ IdleDual
    /\ IdleArm /\ IdleLoad /\ IdleStart /\ IdleTimed /\ IdlePool /\ IdleLife

InitSpecPool == InitPool /\ IdleCodec /\ IdleRecv /\ IdleRun /\ IdleDual /\ IdleCompile
    /\ IdleArm /\ IdleLoad /\ IdleStart /\ IdleTimed /\ IdleLife

InitSpecLife == InitLife /\ IdleCodec /\ IdleRecv /\ IdleRun /\ IdleDual /\ IdleCompile
    /\ IdleArm /\ IdleLoad /\ IdleStart /\ IdleTimed /\ IdlePool

\* Either executor.
InitSpecExec == InitSpecRun \/ InitSpecDual

NextExec == NextRun \/ NextDual

Init ==
    \/ InitSpecCodec \/ InitSpecRecv \/ InitSpecRun \/ InitSpecDual \/ InitSpecCompile
    \/ InitSpecArm \/ InitSpecLoad \/ InitSpecStart \/ InitSpecTimed \/ InitSpecNoisy
    \/ InitSpecPool \/ InitSpecLife \/ InitSpecInterval

Next ==
    \/ NextCodec \/ NextRecv \/ NextRun \/ NextDual \/ NextCompile \/ NextCaller
    \/ NextArm \/ NextLoad \/ NextStart \/ NextTimed \/ NextPool \/ NextLife

Spec == Init /\ [][Next]_vars

SpecCodec == InitSpecCodec /\ [][NextCodec]_vars

SpecRecv == InitSpecRecv /\ [][NextRecv]_vars

SpecRun == InitSpecRun /\ [][NextRun]_vars

SpecDual == InitSpecDual /\ [][NextDual]_vars

SpecExec == InitSpecExec /\ [][NextExec]_vars

\* The executors run on: the interpreter takes the next step of a call in
\* progress, and time.sleep returns.
SpecExecFair == SpecExec /\ WF_vars(NextRun) /\ WF_vars(NextDual)

SpecCompile == InitSpecCompile /\ [][NextCompile]_vars

SpecPure == InitSpecPure /\ [][NextPure]_vars

SpecArm == InitSpecArm /\ [][NextArm]_vars

SpecLoad == InitSpecLoad /\ [][NextLoad]_vars

SpecStart == InitSpecStart /\ [][NextStart]_vars

SpecNoisy == InitSpecNoisy /\ [][NextRecv]_vars

SpecPool == InitSpecPool /\ [][NextPool]_vars

SpecInterval == InitSpecInterval /\ [][NextCompile]_vars

SpecLife == InitSpecLife /\ [][NextLife]_vars

\* Both threads run on: the caller takes its next step and the reader its
\* own; recv(timeout=0.05) returns.
SpecTimed ==
    InitSpecTimed /\ [][NextTimed]_vars /\ WF_vars(NextSender) /\ WF_vars(NextReader)

----------------------------------------------------------------------------
(* Claims about the frame codec *)

\* The frame _decode_frame needs to hold a whole message: start byte, control
\* byte, the ID for its width and the end byte.
CompleteFrameLen(data) ==
    IF Len(data) >= 2 /\ BitAnd(data[2], 32) # 0 THEN 7 ELSE 5

\* The data bytes present between the ID and the end byte.
DataBytesPresent(data) ==
    Len(data) - CompleteFrameLen(data)

\* C1: frame codec round trip.  For every message with at most 8 data bytes whose
\* ID fits its width, decoding the encoded frame gives a message with the same
\* arbitration ID, the same data bytes, the same extended flag and the same
\* remote flag.
C1_RoundTrip ==
    cPc = "decoded" =>
        /\ cOut # NoMsg /\ cOut # StructError
        /\ cOut.arbitration_id = cMsg.arbitration_id
        /\ cOut.data = cMsg.data
        /\ cOut.is_extended_id = cMsg.is_extended_id
        /\ cOut.is_remote_frame = cMsg.is_remote_frame

\* A round trip of an extended data frame with 8 data bytes, the end marker
\* among them and in its ID.
C1_Witness ==
    /\ cPc = "decoded"
    /\ cMsg.is_extended_id
    /\ ~cMsg.is_remote_frame
    /\ Len(cMsg.data) = MaxDataLen
    /\ \E i \in 1..Len(cMsg.data) : cMsg.data[i] = FRAME_END
    /\ cMsg.arbitration_id = U32(21930, 43605)
    /\ cOut = cMsg

\* C3: decoder robustness.  For every byte string _decode_frame never raises, and
\* it returns None whenever the input is shorter than a complete frame, does not
\* begin with 0xAA and end with 0x55, or holds fewer data bytes than the control
\* byte declares.
C3_DecoderRobust ==
    cPc = "decoded_raw" =>
        /\ cOut # StructError
        /\ (\/ Len(cBytes) < CompleteFrameLen(cBytes)
            \/ cBytes[1] # FRAME_START
            \/ cBytes[Len(cBytes)] # FRAME_END
            \/ DataBytesPresent(cBytes) < BitAnd(cBytes[2], 15))
           => cOut = NoMsg

\* The part of C3 the code keeps: no byte string makes _decode_frame raise.
C3_NeverRaises ==
    cPc \in {"decoded", "decoded_raw"} => cOut # StructError

\* The four-byte input AA C2 01 55 decoded to a message.
C3_FourByteFrameDecoded ==
    /\ cPc = "decoded_raw"
    /\ cBytes = <<170, 194, 1, 85>>
    /\ cOut = Message(U32(0, 1 + 256 * 85), << >>, FALSE, FALSE)

----------------------------------------------------------------------------
(* Claims about the receive path *)

\* Nothing is left to deliver: every byte has been read and the buffer holds no
\* start marker followed by an end marker.
RecvQuiescent ==
    /\ rPc \in {"idle", "read"}
    /\ rWire = << >>
    /\ ~ScanBuffer(recv_buffer).found

\* No byte of a frame's ID or payload equals the end marker.
NoEndMarkerInside(msg) ==
    LET f == EncodeFrame(msg)
    IN  \A i \in 2..(Len(f) - 1) : f[i] # FRAME_END

\* C2 as claimed: for every sequence of valid frames and every split of their
\* bytes across serial reads, the calls of _recv_internal return the original
\* frames in order: never a frame that was not sent, and all of them once the
\* stream has been read.
C2_AllFramesAnySplit ==
    /\ IsPrefix(rDelivered, rSent)
    /\ RecvQuiescent => rDelivered = rSent

\* C2 amended: the same for frames none of whose ID and payload bytes equals the
\* end marker 0x55.
C2_FramesWithoutEndMarker ==
    (\A i \in 1..Len(rSent) : NoEndMarkerInside(rSent[i])) =>
        /\ IsPrefix(rDelivered, rSent)
        /\ RecvQuiescent => rDelivered = rSent

\* Two frames, the second with the start marker in its payload, both delivered
\* in order after their bytes arrived in four or more reads.
C2_Witness ==
    /\ Len(rSent) = 2
    /\ rReads >= 4
    /\ rSent[2] = Message(Id(680), <<170, 0, 170>>, FALSE, FALSE)
    /\ \A i \in 1..Len(rSent) : NoEndMarkerInside(rSent[i])
    /\ RecvQuiescent
    /\ rDelivered = rSent

----------------------------------------------------------------------------
(* Claims about the executor *)

IsMoveJoints(e) == e.op = "move_joints"

\* Both commands of waypoint k of an arm are in a log.
Delivered(log, arm, k) ==
    /\ \E i \in 1..Len(log) : log[i].op = "move_joints" /\ log[i].arm = arm /\ log[i].k = k
    /\ \E i \in 1..Len(log) :
          log[i].op = "_send_gripper_command" /\ log[i].arm = arm /\ log[i].k = k

\* Round i is at the earliest pending waypoint time and holds exactly the
\* arms whose pending waypoint is within 1 ms of it, each once; round times
\* do not decrease.
RoundWellFormed(i) ==
    LET r == rd_rounds[i]
        pendingArms == {l \in LabelSet : r.before[l] <= Len(rd_trajectories[l])}
        t(l) == rd_trajectories[l][r.before[l]].time_s
    IN  /\ pendingArms # {}
        /\ r.time = MinOf({t(l) : l \in pendingArms})
        /\ {r.arms[j] : j \in 1..Len(r.arms)} =
              {l \in pendingArms : Abs(t(l) - r.time) < OneMs}
        /\ \A j1, j2 \in 1..Len(r.arms) : r.arms[j1] = r.arms[j2] => j1 = j2
        /\ i > 1 => rd_rounds[i - 1].time <= r.time

\* 'he' has a waypoint at 1.0 s, 'she' at 1.0 s and 1.5 s.
ScenarioTrajectories ==
    [l \in LabelSet |-> IF l = "he" THEN TrajectoryOf(<<Ms(1000)>>)
                        ELSE TrajectoryOf(<<Ms(1000), Ms(1500)>>)]

ScenarioRounds ==
    /\ Len(rd_rounds) = 2
    /\ rd_rounds[1].time = Ms(1000)
    /\ rd_rounds[1].arms = <<"he", "she">>
    /\ rd_rounds[2].time = Ms(1500)
    /\ rd_rounds[2].arms = <<"she">>

\* C4: run_dual_trajectory walks both trajectories as one stream of dispatch
\* rounds with non-decreasing times, each round at the earliest pending
\* waypoint time and holding exactly the arms whose pending waypoint is within
\* 1 ms of it, one waypoint per arm; in the scenario the run has a round at
\* 1.0 s with both arms' commands and a round at 1.5 s with only she's.
C4_DualMergeRounds ==
    /\ \A i \in 1..Len(rd_rounds) : RoundWellFormed(i)
    /\ (rd_trajectories = ScenarioTrajectories /\ ~rd_dry_run
           /\ rd_pc \in {"done", "raised"}) =>
          /\ ScenarioRounds
          /\ Delivered(rd_log, "he", 1)
          /\ Delivered(rd_log, "she", 1)
          /\ Delivered(rd_log, "she", 2)

\* What does hold of the merge: every round formed is well formed, in every
\* mode.
C4_RoundsWellFormed == \A i \in 1..Len(rd_rounds) : RoundWellFormed(i)

\* What does hold of the scenario: a dry run forms exactly the two rounds.
C4_DryRunScenarioRounds ==
    (rd_trajectories = ScenarioTrajectories /\ rd_dry_run /\ rd_pc = "done") => ScenarioRounds

\* A live run of the scenario ends by the exception, in its first round.
C4_LiveScenarioRaises ==
    (rd_trajectories = ScenarioTrajectories /\ ~rd_dry_run) =>
       /\ rd_pc # "done"
       /\ Len(rd_rounds) <= 1

C5_ParallelSendsNothing == (rd_parallel /\ ~rd_dry_run) => rd_log = << >>

\* C6: run_trajectory (not dry-run) dispatches every waypoint once, in list
\* order; for each the joint command and then the gripper command with the
\* waypoint's gripper value, then the wait; waypoint k+1 is not dispatched
\* before the wait after waypoint k.
C6_SingleArmOrder ==
    (rt_pc # "off" /\ ~rt_dry_run) =>
       /\ rt_pc # "raised"
       /\ \A i \in 1..Len(rt_log) :
             rt_log[i].op = "move_joints" =>
                /\ i < Len(rt_log)
                /\ rt_log[i + 1].op = "_send_gripper_command"
                /\ rt_log[i + 1].k = rt_log[i].k
                /\ HasAttr(rt_waypoints[rt_log[i].k], "gripper")
                /\ rt_log[i + 1].arg = rt_waypoints[rt_log[i].k].gripper
       /\ \A i, j \in 1..Len(rt_log) : i < j => rt_log[i].k <= rt_log[j].k
       /\ rt_pc = "done" =>
             LET sent == SelectSeq(rt_log, IsMoveJoints)
             IN  /\ Len(sent) = Len(rt_waypoints)
                 /\ \A k \in 1..Len(sent) :
                       sent[k].k = k /\ sent[k].arg = JointsRad(rt_waypoints[k])

\* What the code does instead: a live run of a non-empty trajectory sends the
\* first waypoint's joint command and ends by the exception.
C6_LiveRunRaises ==
    (~rt_dry_run /\ rt_waypoints # << >> /\ rt_pc \in {"wait", "done", "raised"}) =>
       /\ rt_pc = "raised"
       /\ Len(rt_log) = 1
       /\ rt_log[1].op = "move_joints"
       /\ rt_log[1].k = 1

\* C7: in run_trajectory and run_dual_trajectory no command for a waypoint
\* with time t is dispatched before t has elapsed since the run started.
C7_NotBeforeWaypointTime ==
    /\ \A i \in 1..Len(rt_log) :
          rt_log[i].op \in CommandOps => rt_log[i].at >= rt_waypoints[rt_log[i].k].time_s
    /\ \A i \in 1..Len(rd_log) :
          rd_log[i].op \in CommandOps =>
             rd_log[i].at >= rd_trajectories[rd_log[i].arm][rd_log[i].k].time_s

\* What does hold: a command for a waypoint at time 0 is on time, any other
\* first command is early.
C7_FirstCommandAtStart ==
    /\ \A i \in 1..Len(rt_log) : rt_log[i].op \in CommandOps => rt_log[i].at = 0
    /\ \A i \in 1..Len(rd_log) : rd_log[i].op \in CommandOps => rd_log[i].at = 0

----------------------------------------------------------------------------
(* Claims about the trajectory compiler *)

\* The tempo is absent or zero: create_groove_config gives the null groove.
NullTempo(choreo) == choreo.bpm = None \/ choreo.bpm[1] = 0

WaypointTimesOf(trajectory) ==
    [k \in 1..Len(trajectory.waypoints) |-> trajectory.waypoints[k].time_s]

\* The first checkpoint time of the schedule of label l.
OwnFirstTime(l) == cp_choreographies[l].checkpoints[1].time_s

\* The earliest checkpoint time over all the schedules compiled together.
EarliestTime ==
    LET firsts == {OwnFirstTime(l) : l \in {m \in DOMAIN cp_choreographies :
                                              cp_choreographies[m].checkpoints # << >>}}
    IN  CHOOSE t \in firsts : \A u \in firsts : t <= u

C9_FinalSampleAppended ==
    /\ cp_pc = "done"
    /\ ~cp_dual
    /\ cp_interpolation = "cubic"
    /\ cp_interval_ms = 3
    /\ Times(cp_choreographies[ArmLabel]) = <<Ms(0), Ms(2)>>
    /\ WaypointTimesOf(cp_result[ArmLabel]) = <<Ms(0), Ms(2)>>

CommonGrid ==
    LET armed == {l \in DOMAIN cp_result : cp_choreographies[l].checkpoints # << >>}
        all_times == AllTimes(cp_choreographies)
    IN  \A l \in armed :
           LET choreo == cp_choreographies[l]
               n == Len(choreo.checkpoints)
               w == cp_result[l].waypoints
           IN  /\ \A m \in armed : WaypointTimesOf(cp_result[m]) = WaypointTimesOf(cp_result[l])
               /\ w # << >>
               /\ w[1].time_s = MinOf(all_times)
               /\ Abs(w[Len(w)].time_s - MaxOf(all_times)) <= OneMs
               /\ NullTempo(choreo) =>
                     \A k \in 1..Len(w) :
                        /\ w[k].time_s <= choreo.checkpoints[1].time_s =>
                              w[k].joints_deg = Positions(choreo)[1]
                        /\ w[k].time_s >= choreo.checkpoints[n].time_s =>
                              w[k].joints_deg = Positions(choreo)[n]

C13_SingleCheckpointRaises ==
    /\ cp_pc = "raised"
    /\ cp_dual
    /\ Len(cp_choreographies["he"].checkpoints) = 2
    /\ Len(cp_choreographies["she"].checkpoints) = 1

\* The interpolation result compile_trajectory and compile_dual_trajectory
\* hand to apply_groove_to_joints for waypoint k of arm l.
Ungrooved(l, k) ==
    LET choreo == cp_choreographies[l]
        times == Times(choreo)
        t == cp_result[l].waypoints[k].time_s
        at == IF cp_dual THEN Max(times[1], Min(times[Len(times)], t)) ELSE t
    IN  IF cp_interpolation = "none" THEN Positions(choreo)[k]
        ELSE Interpolate(CreateInterpolator(times, Positions(choreo), cp_interpolation),
                         at, cp_easing)

C12_TempoGrooves ==
    /\ cp_pc = "done"
    /\ ~cp_dual
    /\ cp_interpolation = "linear"
    /\ cp_choreographies[ArmLabel].bpm = Some(120)
    /\ Len(cp_result[ArmLabel].waypoints) >= 2
    /\ cp_result[ArmLabel].waypoints[2].joints_deg[2] # Ungrooved(ArmLabel, 2)[2]
    /\ cp_result[ArmLabel].waypoints[2].joints_deg[1] = Ungrooved(ArmLabel, 2)[1]

C19_DualWitness ==
    /\ cp_pc = "done"
    /\ cp_run = 2
    /\ cp_mutated
    /\ cp_dual
    /\ cp_interpolation = "cubic"
    /\ Len(cp_result["he"].waypoints) >= 3
    /\ Len(cp_result["she"].waypoints) >= 3

C17_AtMostDlcDataBytes ==
    (cPc \in {"decoded", "decoded_raw"} /\ "data" \in DOMAIN cOut) =>
       /\ Len(cOut.data) <= 15
       /\ Len(cOut.data) <= BitAnd(cBytes[2], 15)
       /\ Len(cOut.data) <= Max(0, Len(cBytes) - 5)

\* A standard frame with control byte 0xCF and 15 bytes before the end marker
\* has been decoded into a message of 15 data bytes.
C17_FifteenDataBytes ==
    /\ cPc = "decoded_raw"
    /\ Len(cBytes) = 20
    /\ cBytes[2] = 207
    /\ "data" \in DOMAIN cOut
    /\ Len(cOut.data) = 15

----------------------------------------------------------------------------
(* Claims about the arm link *)

\* The first _read_feedback of connect() has returned False: the deadline
\* passed before all three joint-pair IDs were seen.
ConnectFeedbackIncomplete ==
    /\ wa_op = "connect"
    /\ wa_pc \in {"enable", "ready"}
    /\ Cardinality(wa_received) < 3

\* C14: when connect() has not received feedback for all three joint-pair IDs
\* within its timeout, the arm does not become connected.
C14_NoFeedbackNoConnection == ConnectFeedbackIncomplete => ~wa_connected

\* C14, what the code does: a connect() whose feedback read timed out with no
\* frame at all still ends with the arm connected and all enable frames sent.
C14_SilentArmConnects ==
    /\ ConnectFeedbackIncomplete
    /\ wa_received = {}
    /\ wa_joints = [i \in 1..6 |-> Rat(0)]
    /\ wa_connected
    /\ Len(wa_sent) = 2 * EnableRounds

\* 0 <= x <= 1 for a rational x.
InUnitInterval(x) == ~RatLess(x, Rat(0)) /\ ~RatLess(Rat(1), x)

\* The raw position of a gripper feedback frame.
RawGripper(msg) == FromBytes4(SubSeq(msg.data, 1, 4))

\* C16: the cached gripper value lies in [0, 1] in every reachable state, and
\* processing a gripper feedback frame with any signed 32-bit raw position,
\* negative and above 70000 included, leaves a value in [0, 1].
C16_GripperClamped ==
    /\ InUnitInterval(wa_gripper)
    /\ \A msg \in GripperFeedbackFrames :
         InUnitInterval(GripperAfter(wa_gripper, msg))

\* C16 happens: a gripper frame with a raw position above 70000 has just been
\* processed, and the cache holds 1.
C16_Witness ==
    /\ wa_msg # None
    /\ ArbId(wa_msg[1]) = GRIPPER_FEEDBACK_ID
    /\ Len(wa_msg[1].data) >= 4
    /\ RawGripper(wa_msg[1]) > GripperRange
    /\ wa_gripper = Rat(1)

\* C16 happens for a negative raw position too: the cache, which held a
\* positive value, holds 0 after the frame.
C16_NegativeWitness ==
    /\ wa_msg # None
    /\ ArbId(wa_msg[1]) = GRIPPER_FEEDBACK_ID
    /\ Len(wa_msg[1].data) >= 4
    /\ RawGripper(wa_msg[1]) < 0
    /\ wa_gripper = Rat(0)
    /\ wa_rx = << >>
    /\ wa_received = {}
    /\ wa_op = "state"

\* EnablePiper() was called and never answered true.
NeverConfirmed ==
    /\ \E i \in 1..Len(st_log) : st_log[i] = SdkCall("EnablePiper", "False")
    /\ \A i \in 1..Len(st_log) : st_log[i] # SdkCall("EnablePiper", "True")

\* C15: connect() of neither hardware adapter fails because the arm never
\* confirms the enable handshake.
C15_ConnectNeverFailsOnEnable ==
    /\ wa_pc = "raised" => ~wa_bus
    /\ st_pc = "raised" => ~NeverConfirmed

\* C15, as the code has it.  Waveshare: once the bus is open connect() does
\* not raise; the enable loop reads nothing, and after its 10 rounds of enable
\* and mode frames the arm is connected.  Standard: connect() raises exactly
\* when the attempts that fit in ENABLE_TIMEOUT_S are spent without one
\* EnablePiper() answering true, and the arm is then not connected.
C15_EnableOutcome ==
    /\ wa_pc = "raised" => ~wa_bus
    /\ (wa_op = "connect" /\ wa_pc = "ready") => wa_connected
    /\ (wa_pc = "ready" /\ wa_call = NoCall) =>
          wa_sent = Repeat(<<EnableFrame, ModeFrame(50)>>, 10)
    /\ wa_connected => wa_pc \in {"ready", "feedback", "overflow"}
    /\ (st_pc = "enabling" /\ st_left = 0) => (NeverConfirmed /\ ENABLED StEnableTimeout)
    /\ (st_pc = "raised" /\ st_log # << >>) =>
          (NeverConfirmed /\ st_left = 0 /\ ~st_connected)
    /\ st_connected <=> st_pc = "connected"
    /\ st_pc = "connected" => ~NeverConfirmed

\* C15, the enable loop of the Waveshare link reads no frame and cannot fail.
C15_EnableLoopReadsNothing ==
    [][wa_pc = "enable" => (wa_rx' = wa_rx /\ wa_msg' = wa_msg /\ wa_pc' \in {"enable", "ready"})]_vars

\* C15 happens: the standard adapter's attempts are spent without a
\* confirmation and connect() has raised.
C15_Witness ==
    /\ st_pc = "raised"
    /\ NeverConfirmed
    /\ st_left = 0
    /\ ~st_connected

\* C15 happens on the Waveshare link: an arm that sent nothing at all is
\* connected after the enable rounds.
C15_WaveshareWitness ==
    /\ wa_connected
    /\ wa_op = "connect"
    /\ wa_msg = None
    /\ wa_received = {}
    /\ wa_round = EnableRounds

\* The cache as the constructor leaves it.
ZeroCache == [i \in 1..6 |-> Rat(0)]

\* The frames a command-sending call sends, from its arguments and the
\* constructor's timing alone.
FramesOfCall(call, stream_burst_s, msg_delay) ==
    IF call.op = "_send_joint_command"
    THEN JointCommandFrames(ZeroCache, call.positions, stream_burst_s, msg_delay)
    ELSE IF call.op = "_send_gripper_command"
    THEN <<GripperFrame(call.position, 1000)>>
    ELSE << >>

\* C18: a command-sending call (_send_joint_command in burst mode, with its
\* _send_command_set calls, and _send_gripper_command) leaves the cached
\* joints and gripper value as they were and sends frames that depend on its
\* arguments only; the cache changes only in a step that processes a
\* received feedback frame.
C18_CacheWrittenOnlyByFeedback ==
    [][/\ (wa_call' # wa_call
            /\ wa_call'.op \in {"_send_joint_command", "_send_gripper_command"}) =>
              /\ wa_joints' = wa_joints
              /\ wa_gripper' = wa_gripper
              /\ wa_sent' = wa_sent \o FramesOfCall(wa_call', wa_stream_burst_s, wa_msg_delay)
       /\ (wa_joints' # wa_joints \/ wa_gripper' # wa_gripper) =>
              /\ wa_pc = "feedback"
              /\ wa_rx # << >>
              /\ wa_msg' = Some(Head(wa_rx))
              /\ IsFeedback(Head(wa_rx))
              /\ wa_sent' = wa_sent]_vars

\* C18 happens: with a cache that feedback has filled, a burst for the zero
\* pose was sent, and its last frame carries the zero targets.
C18_Witness ==
    /\ wa_call.op = "_send_joint_command"
    /\ wa_call.positions = ZeroCache
    /\ wa_joints[1] = Rat(1)
    /\ wa_sent[Len(wa_sent)] =
         Message(Id(ARM_JOINT_CTRL_ID_BASE + 2), <<0, 0, 0, 0, 0, 0, 0, 0>>, FALSE, FALSE)

\* C18 happens for the gripper: a command for position 1/2 was sent while the
\* cache held 1.
C18_GripperWitness ==
    /\ wa_call.op = "_send_gripper_command"
    /\ wa_call.position = Frac(1, 2)
    /\ wa_gripper = Rat(1)
    /\ wa_sent[Len(wa_sent)] = GripperFrame(Frac(1, 2), 1000)

\* The settings frame for a speed code: AA 55 12, the code, mode 0, 8 filter
\* and mask bytes, 5 reserved bytes, 55.
SettingsFrame(speed_code) ==
    <<170, 85, 18, speed_code, 0>> \o [i \in 1..8 |-> 0] \o [i \in 1..5 |-> 0] \o <<85>>

\* The speed codes of the bitrates asked for in the runs.
SpeedCodeOf(bitrate) ==
    CASE bitrate = 1000000 -> 1
      [] bitrate = 500000 -> 3
      [] bitrate = 5000 -> 12
      [] OTHER -> 0

IsSettingsWrite(call) ==
    call.op = "write" /\ Len(call.data) >= 3 /\ SubSeq(call.data, 1, 3) = <<170, 85, 18>>

\* C23 as stated: the configuration frame written at open has 20 bytes.
C23_TwentyByteFrame ==
    bus_pc = "open" => (ser_log[1].op = "write" /\ Len(ser_log[1].data) = 20)

\* C23: opening the transport writes the settings frame (19 bytes) with the
\* speed code of the requested bitrate first, flushes it, and writes it
\* never again; every later write is one CAN frame; an unsupported bitrate
\* raises with no byte written, and nothing is written before the open.
C23_ConfigurationAtOpen ==
    /\ bus_pc = "open" =>
          /\ bus_bitrate \in {1000000, 500000, 5000}
          /\ Len(ser_log) >= 2
          /\ ser_log[1] = SerWrite(SettingsFrame(SpeedCodeOf(bus_bitrate)))
          /\ Len(ser_log[1].data) = 19
          /\ ser_log[2] = SerFlush
          /\ \A k \in 3..Len(ser_log) :
                /\ ~IsSettingsWrite(ser_log[k])
                /\ ser_log[k].op = "write" => DecodeFrame(ser_log[k].data) # NoMsg
          /\ wa_pc # "off" => SubSeq(ser_log, 3, Len(ser_log)) = BusSendAll(wa_sent)
    /\ bus_pc \in {"off", "new", "raised"} => ser_log = << >>
    /\ (bus_pc \in {"open", "raised"} /\ bus_bitrate \in {123456, 0}) => bus_pc = "raised"

\* C23 happens: a bus opened at 500 kbit/s has written the settings frame
\* with code 3 and then one CAN frame.
C23_Witness ==
    /\ bus_pc = "open"
    /\ bus_bitrate = 500000
    /\ Len(ser_log) = 4
    /\ ser_log[1].data[4] = 3
    /\ ser_log[3] = SerWrite(EncodeFrame(Message(Id(677), <<1, 2>>, FALSE, FALSE)))

\* C23 happens: an unsupported bitrate has raised with nothing written.
C23_UnsupportedWitness ==
    /\ bus_pc = "raised"
    /\ bus_bitrate = 123456
    /\ ser_log = << >>

----------------------------------------------------------------------------
(* Claims about the choreography loader *)

IsSpeedWarning(w) == w.kind = "Speed limit"

\* The speed-limit warnings returned, in order, each as the poses and the
\* joint it names.
SpeedWarningsReturned ==
    LET ws == SelectSeq(ld_warnings, IsSpeedWarning)
    IN  [k \in 1..Len(ws) |-> <<ws[k].prev, ws[k].curr, ws[k].joint>>]

\* |angle delta| of joint idx between lines i and i + 1, in degrees, and the
\* time between them, in ms.
DeltaDeg(i, idx) ==
    Abs(ld_poses[ld_schedule[i + 1][2]].joints_deg[idx][1]
        - ld_poses[ld_schedule[i][2]].joints_deg[idx][1])

DurationMs(i) == ld_schedule[i + 1][1] - ld_schedule[i][1]

\* Joint idx moves faster than 172 deg/s between lines i and i + 1.
TooFast(i, idx) == DurationMs(i) > 0 /\ DeltaDeg(i, idx) * 1000 > 172 * DurationMs(i)

\* One entry for each (consecutive pair, joint) that is too fast, pairs in
\* schedule order and joints in JOINT_ORDER.
SpeedViolations ==
    Concat([k \in 1..(6 * (Len(ld_schedule) - 1)) |->
               LET i == ((k - 1) \div 6) + 1
                   idx == ((k - 1) % 6) + 1
               IN  IF TooFast(i, idx)
                   THEN <<<<ld_schedule[i][2], ld_schedule[i + 1][2], JOINT_ORDER[idx]>>>>
                   ELSE << >>])

NamesMissingPose == \E i \in 1..Len(ld_schedule) : ld_schedule[i][2] \notin DOMAIN ld_poses

\* Two checkpoints 1 second apart whose poses differ by 200 degrees on one
\* joint and not at all on the others.
SpeedScenario ==
    /\ Len(ld_schedule) = 2
    /\ ~NamesMissingPose
    /\ DurationMs(1) = 1000
    /\ \E idx \in 1..6 :
         /\ DeltaDeg(1, idx) = 200
         /\ \A other \in (1..6) \ {idx} : DeltaDeg(1, other) = 0

\* C20, the scenario as stated: the returned warning list holds exactly one
\* warning.
C20_ScenarioOneWarning ==
    (ld_pc = "done" /\ SpeedScenario) => Len(ld_warnings) = 1

\* C20: load_choreography raises only for a missing pose, never for a speed
\* violation; it returns exactly one speed-limit warning, naming both poses
\* and the joint, for each (consecutive pair with positive duration, joint)
\* whose speed strictly exceeds 172 deg/s, and no other speed-limit warning;
\* in the scenario exactly one speed-limit warning is returned, and the list
\* holds nothing else when both poses are within the joint limits.
C20_SpeedWarningsExact ==
    /\ ld_pc = "raised" => NamesMissingPose
    /\ (ld_pc = "done" /\ SpeedViolations # << >>) => ~NamesMissingPose
    /\ ld_pc = "done" => SpeedWarningsReturned = SpeedViolations
    /\ (ld_pc = "done" /\ SpeedScenario) =>
          /\ Len(SpeedWarningsReturned) = 1
          /\ \A k \in 1..Len(ld_warnings) :
                ld_warnings[k].kind \in {"Speed limit", "Joint limit"}
          /\ (\A i \in 1..2 : JointLimitWarnings(ld_poses[ld_schedule[i][2]]) = << >>) =>
                Len(ld_warnings) = 1

\* C20 happens: the scenario on J1, both poses within the joint limits, and
\* the list returned holds the one speed-limit warning.
C20_Witness ==
    /\ ld_pc = "done"
    /\ SpeedScenario
    /\ DeltaDeg(1, 1) = 200
    /\ Len(ld_warnings) = 1
    /\ ld_warnings[1].kind = "Speed limit"
    /\ ld_warnings[1].joint = "J1"
    /\ ld_warnings[1].speed = Rat(200)

\* C20 at the limit: 172 degrees in 1 second gives no warning.
C20_AtLimitWitness ==
    /\ ld_pc = "done"
    /\ ld_schedule = <<<<0, "rest">>, <<1000, "j6">>>>
    /\ ld_warnings = << >>

\* C20, the scenario on J2: the list holds the speed-limit warning and a
\* joint-limit warning.
C20_ScenarioTwoWarnings ==
    /\ ld_pc = "done"
    /\ SpeedScenario
    /\ DeltaDeg(1, 2) = 200
    /\ Len(ld_warnings) = 2
    /\ Len(SpeedWarningsReturned) = 1

\* C21: load_choreography raises, returning no choreography, exactly when a
\* checkpoint names a pose the poses file lacks; otherwise it returns the
\* whole pose dictionary and every checkpoint of the schedule, in order, and
\* joint-limit and speed-limit violations only add warnings.
C21_ValidationTaxonomy ==
    /\ (ld_pc # "call" /\ NamesMissingPose) => (ld_pc = "raised" /\ ld_result = ValueError)
    /\ (ld_pc # "call" /\ ~NamesMissingPose) =>
          /\ ld_pc = "done"
          /\ ld_result.poses = ld_poses
          /\ Len(ld_result.checkpoints) = Len(ld_schedule)
          /\ \A i \in 1..Len(ld_schedule) :
                /\ ld_result.checkpoints[i].pose_name = ld_schedule[i][2]
                /\ ld_result.checkpoints[i].time_s = Frac(ld_schedule[i][1], 1000)
          /\ ld_result.warnings = ld_warnings
          /\ \A k \in 1..Len(ld_warnings) :
                ld_warnings[k].kind \in {"Joint limit", "Speed limit", "Invalid timing"}

\* C21 happens: a schedule with a pose outside its joint limits and a pair
\* that is too fast was loaded, with a warning for each and all checkpoints.
C21_Witness ==
    /\ ld_pc = "done"
    /\ Len(ld_result.checkpoints) = 3
    /\ \E k \in 1..Len(ld_warnings) : ld_warnings[k].kind = "Joint limit"
    /\ \E k \in 1..Len(ld_warnings) : ld_warnings[k].kind = "Speed limit"

\* C21 happens: the last checkpoint names a missing pose and the call raised.
C21_RaisedWitness ==
    /\ ld_pc = "raised"
    /\ Len(ld_schedule) = 3
    /\ ld_schedule[3][2] = "ghost"
    /\ ld_schedule[1][2] = "j2"

\* C22: every choreography load_choreography returns has checkpoint times
\* that strictly increase in list order.
C22_ReturnedTimesIncrease ==
    ld_pc = "done" =>
        \A i \in 1..(Len(ld_result.checkpoints) - 1) :
            RatLess(ld_result.checkpoints[i].time_s, ld_result.checkpoints[i + 1].time_s)

\* C22, what the code does: a schedule whose second time precedes its first
\* is returned as a choreography, in file order, with an invalid-timing
\* warning.
C22_DecreasingScheduleReturned ==
    /\ ld_pc = "done"
    /\ ld_schedule = <<<<1000, "rest">>, <<0, "j1">>>>
    /\ ld_result.checkpoints = <<ScriptCheckpoint(1000, "rest"), ScriptCheckpoint(0, "j1")>>
    /\ ld_warnings = <<[kind |-> "Invalid timing", prev |-> "rest", curr |-> "j1"]>>

-----------------------------------------------------------------------------
(* Claims about the startup sequence *)

\* The number of startup waypoints in the result: what precedes the
\* waypoints of the trajectory given.
StartupCount == Len(su_result.waypoints) - Len(su_given.waypoints)

StartupPart == SubSeq(su_result.waypoints, 1, StartupCount)

\* The original waypoints follow, in order, 7 s later, joints unchanged; the
\* total duration grows by 7 s; the trajectory given is as it was.
ShiftedOriginalsFollow ==
    /\ StartupCount >= 1
    /\ \A k \in 1..Len(su_given.waypoints) :
          /\ su_result.waypoints[StartupCount + k].time_s
                 = su_given.waypoints[k].time_s + Seconds(7)
          /\ su_result.waypoints[StartupCount + k].joints_deg
                 = su_given.waypoints[k].joints_deg
    /\ su_result.total_duration_s = su_given.total_duration_s + Seconds(7)
    /\ su_trajectory = su_given

\* In the startup waypoints only J6 leaves the starting pose, by at most 60
\* degrees.
OnlyJ6Wiggles ==
    \A k \in 1..StartupCount :
        LET joints == StartupPart[k].joints_deg
        IN  /\ \A j \in 1..5 : joints[j] = su_starting_joints[j]
            /\ ~RatLess(Rat(60), RatAbs(RatSub(joints[6], su_starting_joints[6])))

ResultTimes == [k \in 1..Len(su_result.waypoints) |-> su_result.waypoints[k].time_s]

\* C24 as stated: the startup waypoints run from 0 to 7 s and begin and end
\* at the starting pose, the shifted originals follow, and the combined
\* times never decrease.
C24_StartupEndsAtStartingPose ==
    su_pc = "done" =>
        /\ ShiftedOriginalsFollow
        /\ OnlyJ6Wiggles
        /\ StartupPart[1] = Waypoint(Seconds(0), su_starting_joints)
        /\ StartupPart[StartupCount] = Waypoint(Seconds(7), su_starting_joints)
        /\ NonDecreasing(ResultTimes)

\* C24, amended: prepend_startup_sequence returns the startup waypoints
\* followed by every original waypoint, in order, 7 s later with joints
\* unchanged; the total duration grows by 7 s and the input is not modified.
\* In the startup waypoints only J6 leaves the starting pose, by at most 60
\* degrees; their times increase from 0; the first is the starting pose at 0;
\* the last is at most 1 ms before 7 s, with J6 at most 0.06 degrees from the
\* starting pose, and is the starting pose whenever it is at 7 s. The
\* combined times never decrease when those of the input never decrease.
C24_StartupPrepend ==
    su_pc = "done" =>
        LET last == StartupPart[StartupCount]
        IN  /\ ShiftedOriginalsFollow
            /\ OnlyJ6Wiggles
            /\ StartupPart[1] = Waypoint(Seconds(0), su_starting_joints)
            /\ StrictlyIncreasing(SubSeq(ResultTimes, 1, StartupCount))
            /\ Seconds(7) - OneMs <= last.time_s /\ last.time_s <= Seconds(7)
            /\ ~RatLess(<<6, 100>>,
                        RatAbs(RatSub(last.joints_deg[6], su_starting_joints[6])))
            /\ last.time_s = Seconds(7) => last.joints_deg = su_starting_joints
            /\ su_given.interval_ms <= 0 =>
                   [k \in 1..StartupCount |-> StartupPart[k].time_s] = KeyTimes
            /\ NonDecreasing([k \in 1..Len(su_given.waypoints) |->
                                 su_given.waypoints[k].time_s])
                   => NonDecreasing(ResultTimes)

\* A call with a sampling interval whose last sample falls 1 ms before 7 s:
\* no waypoint at 7 s is added, and two original waypoints follow.
C24_Witness ==
    /\ su_pc = "done"
    /\ Len(su_given.waypoints) = 2
    /\ su_given.interval_ms = 2333
    /\ StartupPart[StartupCount].time_s = Seconds(7) - OneMs
    /\ StartupPart[StartupCount].joints_deg # su_starting_joints
    /\ su_result.waypoints[StartupCount + 2].time_s
           = su_given.waypoints[2].time_s + Seconds(7)

\* A call on a trajectory whose times decrease: so do the combined times.
C24_DecreasingWitness ==
    /\ su_pc = "done"
    /\ ShiftedOriginalsFollow
    /\ ~NonDecreasing(ResultTimes)

-----------------------------------------------------------------------------
(* Claims about dry runs *)

\* The calls a dry run may make: none on an arm, only time.sleep.
OnlySleeps(log) == \A i \in 1..Len(log) : log[i].op = "time.sleep"

\* Every waypoint of every arm was taken into exactly one round.
EveryWaypointInOneRound ==
    \A l \in LabelSet : \A k \in 1..Len(rd_trajectories[l]) :
        Cardinality({i \in 1..Len(rd_rounds) :
                        /\ \E j \in 1..Len(rd_rounds[i].arms) : rd_rounds[i].arms[j] = l
                        /\ rd_rounds[i].before[l] = k}) = 1

DryRunSafe ==
    /\ rt_dry_run =>
          /\ OnlySleeps(rt_log)
          /\ rt_pc \notin {"dispatch", "raised"}
          /\ rt_pc = "done" => (rt_waypoints = << >> \/ rt_k = Len(rt_waypoints) + 1)
    /\ rd_dry_run =>
          /\ OnlySleeps(rd_log)
          /\ rd_pc \notin {"dispatch", "raised"}
          /\ rd_pc = "done" => (EveryWaypointInOneRound /\ \A l \in LabelSet : IsNone(l))

\* C25: with dry_run=True, run_trajectory and run_dual_trajectory call no
\* command and no wait method of any arm (the log holds time.sleep only),
\* step through every waypoint and every round, and return.
C25_DryRunMovesNothing ==
    /\ []DryRunSafe
    /\ (rt_dry_run /\ rt_pc = "call") ~> (rt_pc = "done")
    /\ (rd_dry_run /\ rd_pc = "call") ~> (rd_pc = "done")

\* A dry run of three waypoints has returned, having slept.
C25_Witness ==
    /\ rt_dry_run /\ rt_pc = "done"
    /\ Len(rt_waypoints) = 3 /\ rt_k = 4
    /\ rt_log # << >>

\* A dual dry run has returned after more than one round.
C25_DualWitness ==
    /\ rd_dry_run /\ rd_pc = "done"
    /\ Len(rd_rounds) >= 2
    /\ rd_log # << >>

-----------------------------------------------------------------------------
(* Claims about timed streaming *)

SetsLogged == Cardinality({i \in 1..Len(tm_log) : tm_log[i] = "_send_command_set"})

\* The order of the events of one timed call.
TimedOrder ==
    /\ tm_log # << >> => tm_log[1] = "reader_thread.start"
    /\ \A i \in 1..Len(tm_log) :
          tm_log[i] = "_send_command_set" =>
              \A j \in 1..(i - 1) : tm_log[j] \notin {"stop_flag.set", "reader ends"}
    /\ tm_pc = "loop" => tm_reader \in {"head", "recv"}
    /\ tm_stop => (tm_left = 0 /\ SetsLogged = tm_passes)
    /\ tm_reader = "exited" => tm_stop
    /\ tm_late_polls <= 1
    /\ tm_pc = "returned" =>
          /\ tm_stop
          /\ \E i \in 2..Len(tm_log) :
                /\ tm_log[i] \in {"joined", "join timed out"}
                /\ tm_log[i - 1] \in {"stop_flag.set", "reader ends"}
                /\ tm_log[i] = "joined" <=> \E j \in 1..(i - 1) : tm_log[j] = "reader ends"

C26_JoinTimeoutWitness ==
    /\ tm_pc = "returned"
    /\ tm_reader = "recv"
    /\ tm_log[Len(tm_log)] = "join timed out"

-----------------------------------------------------------------------------
(* Claims about the command set *)

\* The five frames of one command set for pos_mdeg, recognised from the
\* frames themselves: the IDs in order, the enable and mode payloads, and in
\* pair k the two int32 values read back from its eight bytes.
IsCommandSet(frames, pos_mdeg) ==
    /\ Len(frames) = 5
    /\ [i \in 1..5 |-> ArbId(frames[i])]
           = <<ARM_MOTOR_ENABLE_ID, ARM_MOTION_CTRL_2, ARM_JOINT_CTRL_ID_BASE,
               ARM_JOINT_CTRL_ID_BASE + 1, ARM_JOINT_CTRL_ID_BASE + 2>>
    /\ \A i \in 1..5 : ~frames[i].is_extended_id /\ ~frames[i].is_remote_frame
    /\ frames[1].data = <<7, 2, 0, 0, 0, 0, 0, 0>>
    /\ SubSeq(frames[2].data, 1, 2) = <<1, 1>>
    /\ \A k \in 0..2 :
          /\ Len(frames[3 + k].data) = 8
          /\ FromBytes4(SubSeq(frames[3 + k].data, 1, 4)) = pos_mdeg[2 * k + 1]
          /\ FromBytes4(SubSeq(frames[3 + k].data, 5, 8)) = pos_mdeg[2 * k + 2]

\* The serial calls of frames each written and flushed on its own.
WrittenAndFlushed(frames) ==
    Concat([i \in 1..Len(frames) |-> <<SerWrite(EncodeFrame(frames[i])), SerFlush>>])

\* C27: every _send_joint_command sends whole command sets only: its frames
\* are one or more runs of the five frames 0x471, 0x151, 0x155, 0x156, 0x157,
\* pair k carrying joints 2k and 2k+1 as int32 millidegrees, each frame
\* written and flushed on its own.
C27_CommandSetAtomic ==
    [][(wa_call' # wa_call /\ wa_call'.op = "_send_joint_command") =>
          LET new == SubSeq(wa_sent', Len(wa_sent) + 1, Len(wa_sent'))
          IN  /\ Len(new) >= 5
              /\ Len(new) % 5 = 0
              /\ \A k \in 0..((Len(new) \div 5) - 1) :
                    IsCommandSet(SubSeq(new, 5 * k + 1, 5 * k + 5),
                                 ToMdeg(wa_call'.positions))
              /\ ser_log' = ser_log \o WrittenAndFlushed(new)]_vars

\* What does hold: a call whose six targets fit in int32 millidegrees sends
\* whole command sets, as many as the burst has iterations.
C27_InRangeCommandSets ==
    [][(wa_call' # wa_call /\ wa_call'.op = "_send_joint_command"
           /\ ~CommandSetRaises(wa_call'.positions)) =>
          LET new == SubSeq(wa_sent', Len(wa_sent) + 1, Len(wa_sent'))
          IN  /\ Len(new) = 5 * Iterations(wa_stream_burst_s, wa_msg_delay)
              /\ \A k \in 0..((Len(new) \div 5) - 1) :
                    IsCommandSet(SubSeq(new, 5 * k + 1, 5 * k + 5),
                                 ToMdeg(wa_call'.positions))
              /\ ser_log' = ser_log \o WrittenAndFlushed(new)
              /\ wa_pc' = "ready"]_vars

\* The same in timed mode: whole sets, one for each pass made.
C27_TimedCommandSets ==
    /\ Len(tm_sent) = 5 * (tm_passes - tm_left)
    /\ \A k \in 0..((Len(tm_sent) \div 5) - 1) :
          IsCommandSet(SubSeq(tm_sent, 5 * k + 1, 5 * k + 5), tm_pos_mdeg)

\* A call with a target beyond the range left after three frames: the enable
\* frame, the mode frame and the first joint pair.
C27_PartialSetSent ==
    /\ wa_pc = "overflow"
    /\ wa_call.op = "_send_joint_command"
    /\ [i \in 1..3 |-> ArbId(wa_sent[Len(wa_sent) - 3 + i])]
           = <<ARM_MOTOR_ENABLE_ID, ARM_MOTION_CTRL_2, ARM_JOINT_CTRL_ID_BASE>>
    /\ ArbId(wa_sent[Len(wa_sent) - 3]) = ARM_MOTION_CTRL_2

-----------------------------------------------------------------------------
(* Claims about feedback decoding *)

\* Four bytes as a signed big-endian integer: the first byte's top bit counts
\* for -2^31.
SignedBigEndian(b) ==
    ((b[1] % 128) - 128 * (b[1] \div 128)) * 16777216 + b[2] * 65536 + b[3] * 256 + b[4]

\* The step in which _process_feedback_msg is given the frame recv returned.
ProcessesFrame == wa_pc = "feedback" /\ wa_rx # << >> /\ wa_msg' = Some(Head(wa_rx))
                  /\ wa_rx' = Tail(wa_rx)

\* C28: a frame with ID 0x2A5 + k and 8 data bytes sets cached joints 2k and
\* 2k+1 to its two signed big-endian int32 millidegree values (as angles),
\* leaves the other four joints and the gripper as they were and is answered
\* with true; a frame whose ID is no feedback ID is answered with false and
\* changes nothing of the cache.
C28_FeedbackDecode ==
    [][ProcessesFrame =>
          LET msg == Head(wa_rx)
              id == ArbId(msg)
              k == id - ARM_JOINT_FEEDBACK_ID_BASE
          IN  /\ (k \in 0..2 /\ Len(msg.data) = 8) =>
                    /\ wa_joints'[2 * k + 1]
                           = Frac(SignedBigEndian(SubSeq(msg.data, 1, 4)), 1000)
                    /\ wa_joints'[2 * k + 2]
                           = Frac(SignedBigEndian(SubSeq(msg.data, 5, 8)), 1000)
                    /\ \A j \in (1..6) \ {2 * k + 1, 2 * k + 2} : wa_joints'[j] = wa_joints[j]
                    /\ wa_gripper' = wa_gripper
                    /\ IsFeedback(msg)
                    /\ id \in wa_received'
              /\ (k \notin 0..2 /\ id # GRIPPER_FEEDBACK_ID) =>
                    /\ ~IsFeedback(msg)
                    /\ wa_joints' = wa_joints
                    /\ wa_gripper' = wa_gripper
                    /\ wa_received' = wa_received]_vars

\* C28 happens: the frame 0x2A6 with 1000 and -90000 millidegrees was
\* processed; joints 3 and 4 hold 1 and -90 degrees, joint 5 its old value.
C28_Witness ==
    /\ wa_msg # None
    /\ ArbId(wa_msg[1]) = ARM_JOINT_FEEDBACK_ID_BASE + 1
    /\ Len(wa_msg[1].data) = 8
    /\ wa_joints[3] = Rat(1) /\ wa_joints[4] = Rat(-90)
    /\ wa_joints[5] = Rat(0)

\* A frame of another ID was processed and the cache is as constructed.
C28_OtherIdWitness ==
    /\ wa_msg # None
    /\ ArbId(wa_msg[1]) = ARM_MOTION_CTRL_2
    /\ wa_joints = [i \in 1..6 |-> Rat(0)]
    /\ wa_received = {}

-----------------------------------------------------------------------------
(* Claims about noise on the line *)

\* The bytes of the noise from its first start marker to the next end
\* marker, or none when there is no such run.
NoiseSegment(noise) ==
    LET starts == {i \in 1..Len(noise) : noise[i] = FRAME_START}
    IN  IF starts = {} THEN << >>
        ELSE LET s == MinOf(starts)
                 ends == {e \in (s + 1)..Len(noise) : noise[e] = FRAME_END}
             IN  IF ends = {} THEN << >> ELSE SubSeq(noise, s, MinOf(ends))

\* The noise holds a run from a start marker to the next end marker that
\* does not decode.
SegmentFailsToDecode ==
    NoiseSegment(rNoise) # << >> /\ DecodeFrame(NoiseSegment(rNoise)) = NoMsg

\* What the receive calls owe the frames that follow the noise: nothing is
\* raised, the undecodable run is out of the buffer once a scan has met it,
\* and the frames are delivered as sent, in order, all of them once the
\* stream has been read.
DroppedAndContinued ==
    /\ \A i \in 1..Len(rDelivered) : rDelivered[i] # StructError
    /\ rPc = "read" => ~IsPrefix(NoiseSegment(rNoise), recv_buffer)
    /\ IsPrefix(rDelivered, rSent)
    /\ RecvQuiescent => rDelivered = rSent

\* C29 as stated: when the bytes between a start marker and the next end
\* marker fail to decode, the scanner removes them without raising, and
\* every valid frame that follows is still delivered unaltered.
C29_DropAndContinue == SegmentFailsToDecode => DroppedAndContinued

\* C29, amended: the same for following frames none of whose ID and payload
\* bytes equals the end marker 0x55.
C29_DropAndContinueNoEndMarker ==
    (SegmentFailsToDecode /\ \A i \in 1..Len(rSent) : NoEndMarkerInside(rSent[i]))
        => DroppedAndContinued

\* C29 happens: the run AA 01 55 came first, then two frames; all bytes
\* have been read, the run is gone and both frames were delivered as sent.
C29_Witness ==
    /\ rNoise = <<170, 1, 85>>
    /\ Len(rSent) = 2
    /\ \A i \in 1..Len(rSent) : NoEndMarkerInside(rSent[i])
    /\ RecvQuiescent
    /\ rDelivered = rSent

\* C30: when a scan ends without a frame, the buffer holds no byte ahead of
\* the first start marker: it is empty or begins with 0xAA.
C30_NoLeadingGarbageKept ==
    rPc = "read" => (recv_buffer = << >> \/ recv_buffer[1] = FRAME_START)

\* What does hold: bytes ahead of a start marker go when the scan finds the
\* marker; without one in the buffer the scan leaves the buffer as it is.
C30_GarbageGoesWithStartMarker ==
    [][rPc = "scan" =>
          LET starts == {i \in 1..Len(recv_buffer) : recv_buffer[i] = FRAME_START}
          IN  IF starts = {}
              THEN recv_buffer' = recv_buffer
              ELSE IsPrefix(recv_buffer', SubSeq(recv_buffer, MinOf(starts), Len(recv_buffer)))
                   \/ \E k \in 1..Len(recv_buffer) :
                         recv_buffer' = SubSeq(recv_buffer, k + 1, Len(recv_buffer))]_vars

\* A byte without a start marker was read and scanned, and is still in the
\* buffer.
C30_GarbageKept ==
    /\ rPc = "read"
    /\ rNoise = <<7>>
    /\ recv_buffer = <<7>>


-----------------------------------------------------------------------------
(* C31: a receive call with a finite timeout *)

\* One more scan of the buffer would deliver a message.
FrameAvailable(buf) ==
    LET sc == ScanBuffer(buf)
    IN  sc.found /\ DecodeFrame(sc.frame_data) # NoMsg

\* The call returns "no message": lines 222, 226 and 233.
ReturnsNoMessage == rPc = "read" /\ rPc' = "idle"

\* C31: a receive call with a finite timeout returns the first complete
\* decodable frame if one is available before the deadline, and "no message"
\* otherwise: it never returns "no message" while its buffer holds a complete
\* frame that decodes.
C31_FrameIfAvailable ==
    [][ReturnsNoMessage => ~FrameAvailable(recv_buffer')]_vars

\* A call gave up at its deadline with a complete frame in its buffer, behind
\* a run that did not decode.
C31_FrameLeftBehind ==
    /\ rPc = "idle"
    /\ rTimeout # NoTimeout
    /\ rDelivered = << >>
    /\ rNoise = <<170, 1, 85>>
    /\ rWire = << >>
    /\ FrameAvailable(recv_buffer)


-----------------------------------------------------------------------------
(* C32: the order of the Waveshare connect sequence *)

\* A joint position frame: one of the three joint-pair command IDs.
IsJointPositionFrame(msg) ==
    msg.arbitration_id.lo \in ARM_JOINT_CTRL_ID_BASE..(ARM_JOINT_CTRL_ID_BASE + 2)

\* The frames of n rounds of the enable loop.
EnableRoundFrames(n) == Repeat(<<EnableFrame, ModeFrame(50)>>, n)

\* C32: connect() of the Waveshare link opens the bus, then polls feedback for
\* at most the bounded timeout, and only after the poll has ended sends
\* exactly 10 rounds of (enable frame, mode frame); no frame is sent while the
\* poll runs, and no joint position frame is sent during connect.
C32_ConnectSequence ==
    /\ (wa_op = "connect" /\ wa_pc = "feedback") =>
          /\ wa_bus /\ bus_pc = "open"
          /\ ~wa_connected
          /\ wa_left \in 0..Polls(500)
          /\ wa_sent = << >>
          /\ ser_log = ConfigureSpeed(bus_bitrate)
    /\ wa_pc = "enable" =>
          /\ wa_op = "connect" /\ wa_bus /\ ~wa_connected
          /\ wa_left = 0 \/ Cardinality(wa_received) >= 3
          /\ wa_round \in 0..EnableRounds
          /\ wa_sent = EnableRoundFrames(wa_round)
    /\ (wa_pc \in {"new", "raised"}) => wa_sent = << >>
    /\ ~wa_connected => \A i \in 1..Len(wa_sent) : ~IsJointPositionFrame(wa_sent[i])
    /\ wa_connected =>
          /\ Len(wa_sent) >= 2 * EnableRounds
          /\ SubSeq(wa_sent, 1, 2 * EnableRounds) = EnableRoundFrames(EnableRounds)
    /\ (wa_connected /\ wa_call = NoCall) => wa_sent = EnableRoundFrames(EnableRounds)

\* C32 happens: connect() has returned after a poll that ran to its timeout
\* with frames received on the way, the 10 rounds behind it.
C32_Witness ==
    /\ wa_connected
    /\ wa_op = "connect"
    /\ wa_call = NoCall
    /\ wa_left = 0
    /\ wa_received # {}
    /\ wa_round = EnableRounds
    /\ Len(wa_sent) = 20


-----------------------------------------------------------------------------
(* C33: the burst of a joint command *)

\* The frames the step has sent.
NewlySent == SubSeq(wa_sent', Len(wa_sent) + 1, Len(wa_sent'))

\* The step is a call of _send_joint_command with duration 0.
BurstCall == wa_call' # wa_call /\ wa_call'.op = "_send_joint_command"

\* The effective msg_delay and stream_burst_s are positive whatever the
\* constructor was given (lines 74-81).
C33_EffectiveTimingPositive ==
    wa_pc # "off" => (wa_msg_delay > 0 /\ wa_stream_burst_s > 0)

\* C33: whatever msg_delay and stream_burst_s the constructor was given, the
\* effective values are positive, and a burst-mode joint command sends the full
\* command set exactly max(1, round(stream_burst_s / msg_delay)) times, hence
\* at least once.
C33_BurstAlwaysSends ==
    [][BurstCall =>
            /\ wa_msg_delay > 0 /\ wa_stream_burst_s > 0
            /\ Len(NewlySent)
                  = 5 * Max(1, RoundDiv(wa_stream_burst_s, wa_msg_delay))
            /\ Len(NewlySent) >= 5
            /\ \A k \in 0..((Len(NewlySent) \div 5) - 1) :
                  [i \in 1..5 |-> ArbId(NewlySent[5 * k + i])]
                     = <<ARM_MOTOR_ENABLE_ID, ARM_MOTION_CTRL_2, ARM_JOINT_CTRL_ID_BASE,
                         ARM_JOINT_CTRL_ID_BASE + 1, ARM_JOINT_CTRL_ID_BASE + 2>>]_vars

\* An arm built with msg_delay 0 and stream_burst_s -0.001 sent ten whole sets
\* in one burst.
C33_DefaultsWitness ==
    /\ wa_msg_delay = DEFAULT_MSG_DELAY
    /\ wa_stream_burst_s = DEFAULT_STREAM_BURST_S
    /\ wa_call # NoCall
    /\ wa_call.op = "_send_joint_command"
    /\ wa_call.n = 1
    /\ Len(wa_sent) = 2 * EnableRounds + 50

\* A burst that ended inside its first command set.
C33_BurstCutShort ==
    /\ wa_pc = "overflow"
    /\ wa_call.n = 1
    /\ Len(wa_sent) = 2 * EnableRounds + 3


-----------------------------------------------------------------------------
(* C34: a dual-arm run completes *)

\* Every round formed so far took at least one waypoint.
NoEmptyRound == \A i \in 1..Len(rd_rounds) : rd_rounds[i].arms # << >>

\* The joint commands an arm was sent, by waypoint index, in the order sent.
JointCommandsOf(log, arm) ==
    LET idx == SelectSeq([i \in 1..Len(log) |-> i],
                         LAMBDA i : log[i].op = "move_joints" /\ log[i].arm = arm)
    IN  [j \in 1..Len(idx) |-> log[idx[j]].k]

\* C34: for any two trajectories with non-decreasing waypoint times,
\* run_dual_trajectory terminates (it does not end by an exception), every
\* round dispatches at least one waypoint, and every waypoint of every
\* trajectory is dispatched exactly once to its own arm, each arm's waypoints
\* in list order.
C34_DualCompletes ==
    /\ rd_pc # "raised"
    /\ NoEmptyRound
    /\ rd_pc = "done" =>
          /\ EveryWaypointInOneRound
          /\ ~rd_dry_run =>
                \A l \in LabelSet :
                   JointCommandsOf(rd_log, l)
                      = [k \in 1..Len(rd_trajectories[l]) |-> k]

\* What does hold of the loop: no round is empty, and a run that returns has
\* taken every waypoint of every arm into exactly one round.
C34_RoundsCoverWaypoints ==
    /\ NoEmptyRound
    /\ rd_pc = "done" => (EveryWaypointInOneRound /\ \A l \in LabelSet : IsNone(l))

\* A dry run of trajectories of different lengths, with two waypoints of one
\* arm less than 1 ms apart, returned after two rounds.
C34_DryRunWitness ==
    /\ rd_pc = "done"
    /\ rd_dry_run
    /\ Len(rd_trajectories["he"]) = 0
    /\ Len(rd_trajectories["she"]) = 2
    /\ rd_trajectories["she"][2].time_s - rd_trajectories["she"][1].time_s = 1
    /\ Len(rd_rounds) = 2

\* A live run ended by the exception in its first round.
C34_LiveRunRaised ==
    /\ rd_pc = "raised"
    /\ ~rd_dry_run
    /\ Len(rd_rounds) = 1
    /\ \E l \in LabelSet : Len(rd_trajectories[l]) = 2


-----------------------------------------------------------------------------
(* C35: no task survives a failed round *)

\* The task of an arm is not running: it was never submitted, or it ended.
TaskOver(l) == pl_task[l] \in {"none", "done", "failed"}

C35_ErrorPropagates ==
    /\ pl_pc = "returned" =>
          /\ \A l \in LabelSet : pl_task[l] \in {"none", "done"}
          /\ pl_joined = Len(pl_pending)
    /\ pl_pc = "raised" => pl_task[pl_pending[pl_joined + 1]] = "failed"

\* The error of he's task has reached the caller, and she's task, still
\* running then, has sent a command set and the gripper command afterwards.
C35_TaskSurvived ==
    /\ pl_pc = "raised"
    /\ pl_task["he"] = "failed"
    /\ pl_task["she"] = "done"
    /\ \E i \in 1..Len(pl_log) :
          pl_log[i].arm = "she" /\ pl_log[i].op = "command_set" /\ pl_log[i].late
    /\ pl_log[Len(pl_log)] = [arm |-> "she", op |-> "gripper", late |-> TRUE]


-----------------------------------------------------------------------------
(* C36, C37: the connection lifecycle *)

IsConnectCall(e) == e.op \in {"connect", "__enter__"}
IsDisconnectCall(e) == e.op \in {"disconnect", "__exit__"}

\* A connect() whose _connect completed, with no disconnect() after it.
ConnectedByHistory(log) ==
    \E i \in 1..Len(log) :
        /\ IsConnectCall(log[i]) /\ log[i].outcome = "completed"
        /\ \A j \in (i + 1)..Len(log) : ~IsDisconnectCall(log[j])

C36_WithWitness ==
    /\ Len(lc_log) = 2
    /\ lc_log[1].op = "__enter__" /\ lc_log[1].outcome = "completed"
    /\ lc_log[2].op = "__exit__" /\ lc_log[2].called
    /\ ~lc_connected /\ lc_depth = 0 /\ lc_bus = "none"

\* C37: if WavesharePiperArm.connect() fails after the serial bus has been
\* opened, the serial connection does not stay open: it is shut down by the
\* failing connect or by a subsequent disconnect() or context-manager exit.
C37_NoLeakedConnection ==
    \A i \in 1..Len(lc_log) :
        /\ (IsConnectCall(lc_log[i]) /\ lc_log[i].outcome = "raised_after_open"
               /\ i < Len(lc_log) /\ IsDisconnectCall(lc_log[i + 1])) =>
              lc_log[i + 1].bus_after = "none"
        /\ (lc_log[i].op = "__enter__" /\ lc_log[i].outcome = "raised_after_open"
               /\ ~lc_log[i].before) =>
              lc_log[i].bus_after = "none"

\* What does hold: the bus of an arm whose flag is set is open, and
\* disconnect() of such an arm shuts it down.
C37_ConnectedBusReleased ==
    /\ lc_connected => lc_bus = "open"
    /\ \A i \in 1..Len(lc_log) :
          (IsDisconnectCall(lc_log[i]) /\ lc_log[i].before) => lc_log[i].bus_after = "none"

\* connect() failed with the bus open, and the disconnect() after it left the
\* bus open.
C37_BusLeftOpen ==
    /\ Len(lc_log) = 2
    /\ lc_log[1].op = "connect" /\ lc_log[1].outcome = "raised_after_open"
    /\ lc_log[2].op = "disconnect" /\ ~lc_log[2].called
    /\ ~lc_connected
    /\ lc_bus = "open"


-----------------------------------------------------------------------------
(* C38: what _read_feedback's result says *)

\* The values every whole joint feedback frame of the traffic carries.
FeedbackJoints == <<Rat(1), Rat(-90), Rat(1), Rat(-90), Rat(1), Rat(-90)>>

\* _read_feedback of connect() has returned true.
SeedingReturnedTrue ==
    /\ wa_op = "connect"
    /\ wa_pc = "enable"
    /\ Cardinality(wa_received) >= 3

\* C38 as stated: _read_feedback returns true only if a frame of each of the
\* three joint-pair IDs was received and applied during the call, so that all
\* six cached joint angles hold values taken from feedback.
C38_FeedbackTruthful == SeedingReturnedTrue => wa_joints = FeedbackJoints

\* C38: _read_feedback starts with nothing received and its poll budget;
\* each frame of a joint-pair ID 0x2A5..0x2A7 it receives is counted, whether
\* or not it is long enough to be applied, and no other frame is; it goes on
\* only while the budget is not spent and fewer than three IDs are counted,
\* and then returns whether three were.
C38_FeedbackSeen ==
    [][/\ (wa_pc # "feedback" /\ wa_pc' = "feedback") =>
              (wa_received' = {} /\ wa_left' = Polls(500))
       /\ (wa_pc = "feedback" /\ wa_pc' = "feedback") =>
              /\ wa_left > 0 /\ Cardinality(wa_received) < 3
              /\ wa_left' \in {wa_left, wa_left - 1}
              /\ wa_msg' = None => (wa_received' = wa_received /\ wa_left' = wa_left - 1)
              /\ wa_msg' # None =>
                    LET id == ArbId(wa_msg'[1])
                    IN  /\ wa_left' = wa_left
                        /\ wa_received'
                              = wa_received \cup
                                   (IF id \in 677..679 THEN {id} ELSE {})
                        /\ (id \in 677..679 /\ Len(wa_msg'[1].data) < 8) =>
                              wa_joints' = wa_joints
       /\ (wa_pc = "feedback" /\ wa_pc' # "feedback") =>
              /\ wa_left = 0 \/ Cardinality(wa_received) >= 3
              /\ wa_received' = wa_received
              /\ wa_received \subseteq 677..679]_vars

\* C38 happens: the seeding of connect() returned true after a frame 0x2A5 of
\* four data bytes; joints 1 and 2 are as the constructor left them.
C38_Witness ==
    /\ SeedingReturnedTrue
    /\ wa_received = 677..679
    /\ wa_joints = <<Rat(0), Rat(0), Rat(1), Rat(-90), Rat(1), Rat(-90)>>
    /\ wa_left = Polls(500)

\* C38 happens: the budget was spent with two IDs seen; the call returned
\* false.
C38_TimeoutWitness ==
    /\ wa_op = "connect"
    /\ wa_pc = "enable"
    /\ wa_left = 0
    /\ Cardinality(wa_received) = 2


-----------------------------------------------------------------------------
(* C39: compilation terminates *)

\* The sampling loop has made a pass and goes on.
GridPass == cp_pc = "grid" /\ cp_pc' = "grid"

C39_PositiveIntervalTerminates ==
    cp_interval_ms > 0 =>
       /\ cp_pc \in {"grid", "final"} =>
             /\ Len(cp_waypoints) * IntervalTicks <= GridEnd - GridStart + 2 * IntervalTicks
             /\ cp_current_time = GridStart + Len(cp_waypoints) * IntervalTicks
                \/ cp_pc = "final"
       /\ cp_pc # "grid" \/ Len(cp_waypoints) < MaxGridWaypoints

\* With interval_ms = 0 the loop has appended MaxGridWaypoints waypoints, all
\* at the first checkpoint's time.
C39_LoopStandsStill ==
    /\ cp_pc = "grid"
    /\ cp_interval_ms = 0
    /\ Len(cp_waypoints) = MaxGridWaypoints
    /\ cp_current_time = GridStart
    /\ \A k \in 1..Len(cp_waypoints) : cp_waypoints[k].time_s = GridStart

\* With a negative interval current_time moves away from the end time.
C39_LoopRunsBackwards ==
    /\ cp_pc = "grid"
    /\ cp_interval_ms = -1
    /\ Len(cp_waypoints) = MaxGridWaypoints
    /\ cp_current_time < GridStart

\* With interval_ms = 1 the compilation of the two checkpoints 4 ms apart
\* has returned five waypoints.
C39_PositiveWitness ==
    /\ cp_pc = "done"
    /\ ~cp_dual
    /\ cp_interval_ms = 1
    /\ cp_interpolation = "cubic"
    /\ Len(cp_result[ArmLabel].waypoints) = 5

=============================================================================
